---- MODULE Spec2Model ----
(***************************************************************************)
(* Model of the eBPF-Test packet preprocessing engine:                     *)
(*   - the two XDP classifiers (src/src/xdp_preproc.c, the xdp_ml_filter   *)
(*     program embedded in src/Makefile.ml),                               *)
(*   - the AF_XDP drainer (src/unnamed/part_001) and its UMEM rings.       *)
(* Frames are byte sequences; the parsers read them by offset.             *)
(***************************************************************************)
EXTENDS Integers, Sequences, FiniteSets, TLC

VARIABLES
    attached,        \* XDP program attached to the interface
    stats_map,       \* stats_map of the attached program
    config_map,      \* config_map: one slot holding a struct ml_config
    xsks_map,        \* queue ids that have an AF_XDP socket in xsks_map
    counter,         \* static __u32 counter of should_sample
    rb_used,         \* records held by feature_rb
    nInv,            \* classifier invocations so far
    last,            \* observation of the last classifier invocation
    fq_size,         \* capacity of the fill ring
    fq,              \* fill ring contents (frame addresses, oldest first)
    rx,              \* RX ring descriptors not yet peeked (oldest first)
    pc,              \* position of the drainer process
    batch,           \* descriptors peeked by the drainer, until republished
    idx_rx,          \* descriptors of the batch processed so far
    umem_frame_addr, \* xsk_info->umem_frame_addr
    umem_frame_free, \* xsk_info->umem_frame_free (uint32_t)
    running,         \* volatile int running
    stats,           \* xsk_info->stats
    nSteered,        \* frames the kernel has put on the RX ring so far
    lastBatch,       \* last completed batch: addresses peeked and published
    delivered,       \* steering numbers of the records given to the callback
    umem,            \* UMEM buffer: the frame written at each frame offset
    window,          \* callbacks made in the current wall-clock second
    stop_peeks,      \* batches peeked since running became 0
    ml_result,       \* int ml_result of the current loop iteration
    ml_func,         \* the callback given to run_ml_processor
    cpu,             \* per CPU: position inside should_sample, register
    verdicts,        \* per CPU: sampling verdicts produced so far
    inflight,        \* per CPU: position inside the classifier and its locals
    probe,           \* arguments and results of the classification functions
    feature,         \* a frame given to extract_ml_features and its record
    util,            \* a utility process: its position, its globals, its exit status
    iface            \* XDP program the kernel holds on the utility's interface

clsVars == <<attached, stats_map, config_map, xsks_map, counter, rb_used, nInv, last>>
xskVars == <<fq_size, fq, rx, pc, batch, idx_rx, umem_frame_addr, umem_frame_free,
             running, stats, nSteered, lastBatch, delivered, umem, window, stop_peeks, ml_result,
             ml_func>>
cpuVars == <<cpu, verdicts>>
smpVars == <<inflight>>
fnVars == <<probe, feature, util, iface>>
vars == <<clsVars, xskVars, cpuVars, smpVars, fnVars>>

----------------------------------------------------------------------------
(* Bounds of the model                                                     *)

MaxInvocations == 2     \* classifier invocations per behaviour
RbCap == 1              \* records feature_rb can hold
NUM_FRAMES == 3         \* frames of the UMEM (4096 in the source)
RX_BATCH_SIZE == 2      \* descriptors peeked per batch (64 in the source)
MaxSteered == 5         \* frames steered to the queue per behaviour
MaxPerCpu == 3          \* packets handled per CPU
NumCpus == 2            \* CPUs running the classifier
MaxRun == 6             \* longest payload of one repeated byte value

----------------------------------------------------------------------------
(* Program constants                                                       *)

XDP_ABORTED == 0
XDP_PASS == 2
XDP_REDIRECT == 4

ETH_P_IP == 2048
ETH_P_IPV6 == 34525
ETH_HLEN == 14
IPHDR_SIZE == 20
TCPHDR_SIZE == 20
UDPHDR_SIZE == 8
IPPROTO_ICMP == 1
IPPROTO_TCP == 6
IPPROTO_UDP == 17

STAT_TOTAL_PACKETS == 0
STAT_FILTERED_PACKETS == 1
STAT_SAMPLED_PACKETS == 2
STAT_ML_PACKETS == 3
STAT_DROPPED_PACKETS == 4
STAT_TCP_PACKETS == 5
STAT_UDP_PACKETS == 6
STAT_PROCESSING_TIME == 7
ML_STATS_ENTRIES == 16

STAT_PACKETS_TOTAL == 0
STAT_PACKETS_UDP == 1
STAT_PACKETS_DROPPED == 2
STAT_PP_PROCESSING_TIME == 3
PP_STATS_ENTRIES == 4

FLOW_NORMAL == 0
FLOW_SUSPICIOUS == 1
FLOW_PRIORITY == 2

DEFAULT_SAMPLING_RATE == 100
FRAME_SIZE == 4096

\* uint32_t arithmetic is modelled modulo 2^30: the model checker's integers
\* are 32-bit signed, and every value below stays far from either modulus
U32 == 1073741824

Min(a, b) == IF a < b THEN a ELSE b

\* bpf_ktime_get_ns() - start_time of one invocation, in ticks: the value only
\* feeds the processing-time statistic, so one tick stands for every duration
ElapsedNs == {1}

----------------------------------------------------------------------------
(* Frames: built from a few header fields, then cut to a length            *)

BE16(x) == <<x \div 256, x % 256>>

Zeros(n) == [k \in 1..n |-> 0]

\* well-formed frames: every protocol, every traffic class, with and without
\* IP options
GoodFrames ==
    [cut : {200}, etype : {ETH_P_IP}, ver : {4}, ihl : {5, 6},
     proto : {IPPROTO_TCP, IPPROTO_UDP, IPPROTO_ICMP},
     ports : {<<40000, 80>>, <<1024, 2000>>, <<50000, 50001>>}]

\* frames cut short inside the Ethernet, IPv4, UDP or TCP header
TruncatedFrames ==
    [cut : {10, 20, 33, 34, 41, 44, 53}, etype : {ETH_P_IP}, ver : {4}, ihl : {5, 6},
     proto : {IPPROTO_TCP, IPPROTO_UDP}, ports : {<<40000, 80>>}]
    \cup
    [cut : {80, 200}, etype : {ETH_P_IP}, ver : {4}, ihl : {15},
     proto : {IPPROTO_TCP, IPPROTO_UDP}, ports : {<<40000, 80>>}]

\* complete frames whose IPv4 header has a bad version or a bad ihl
BadHeaderFrames ==
    [cut : {200}, etype : {ETH_P_IP}, ver : {6}, ihl : {5},
     proto : {IPPROTO_TCP, IPPROTO_UDP}, ports : {<<40000, 80>>}]
    \cup
    [cut : {200}, etype : {ETH_P_IP}, ver : {4}, ihl : {0, 4},
     proto : {IPPROTO_TCP, IPPROTO_UDP, IPPROTO_ICMP}, ports : {<<40000, 80>>}]

NonIpFrames ==
    [cut : {10, 200}, etype : {ETH_P_IPV6}, ver : {6}, ihl : {5},
     proto : {IPPROTO_UDP}, ports : {<<1024, 2000>>}]

FrameFields == GoodFrames \cup TruncatedFrames \cup BadHeaderFrames \cup NonIpFrames

\* total-length field of the IPv4 header of every generated frame
TotLen == 80

EthBytes(ff) == Zeros(12) \o BE16(ff.etype)

IpBytes(ff) ==
    <<ff.ver * 16 + ff.ihl, 0>> \o BE16(TotLen) \o <<0, 0, 0, 0, 64, ff.proto, 0, 0>>
    \o <<10, 0, 0, 1>> \o <<10, 0, 0, 2>>
    \o (IF ff.ihl > 5 THEN Zeros((ff.ihl - 5) * 4) ELSE <<>>)

L4Bytes(ff) ==
    BE16(ff.ports[1]) \o BE16(ff.ports[2])
    \o (IF ff.proto = IPPROTO_TCP
        THEN <<0, 0, 0, 1, 0, 0, 0, 0, 80, 2, 16, 0, 0, 0, 0, 0>>
        ELSE <<0, 12, 0, 0>>)

FullBytes(ff) == EthBytes(ff) \o IpBytes(ff) \o L4Bytes(ff) \o <<65, 65, 65, 65>>

\* the bytes in [data, data_end)
FrameBytes(ff) ==
    LET full == FullBytes(ff)
    IN  SubSeq(full, 1, Min(ff.cut, Len(full)))

----------------------------------------------------------------------------
(* Memory access: offsets are relative to ctx->data                        *)

ByteAt(b, off) == IF off >= 0 /\ off < Len(b) THEN b[off + 1] ELSE 0

\* a 16-bit load on the little-endian host
LoadU16(b, off) == ByteAt(b, off) + 256 * ByteAt(b, off + 1)

LoadU32(b, off) == LoadU16(b, off) + 65536 * LoadU16(b, off + 2)

Ntohs(x) == (x % 256) * 256 + (x \div 256)

Htons(x) == (x % 256) * 256 + (x \div 256)

----------------------------------------------------------------------------
(* Shared maps                                                             *)

NULL == -1

\* bpf_map_lookup_elem on an array map: a slot for every key below max_entries
map_lookup(map, key) == IF key \in DOMAIN map THEN map[key] ELSE NULL

\* update_stat subtracting the value from the slot
update_stat_Subtracts(map, key, value) ==
    IF map_lookup(map, key) # NULL
    THEN [map EXCEPT ![key] = @ - value]
    ELSE map

\* update_stat storing the value in the slot
update_stat_Stores(map, key, value) ==
    IF map_lookup(map, key) # NULL
    THEN [map EXCEPT ![key] = value]
    ELSE map

\* update_stat: __sync_fetch_and_add on the slot, nothing when the key is absent
update_stat(map, key, value) ==
    IF map_lookup(map, key) # NULL
    THEN [map EXCEPT ![key] = @ + value]
    ELSE map

RECURSIVE ApplyUpdates(_, _)
ApplyUpdates(map, upd) ==
    IF upd = <<>> THEN map
    ELSE ApplyUpdates(update_stat(map, Head(upd)[1], Head(upd)[2]), Tail(upd))

\* the slot of config_map before any configuration is installed
ZeroConfig == [sampling_rate |-> 0, max_ml_rate |-> 0, filter_mask |-> 0, queue_id |-> 0]

\* struct ml_config values the control plane installs
Configs ==
    {ZeroConfig,
     [sampling_rate |-> 1, max_ml_rate |-> 0, filter_mask |-> 3, queue_id |-> 0],
     [sampling_rate |-> 1, max_ml_rate |-> 0, filter_mask |-> 6, queue_id |-> 0],
     [sampling_rate |-> 2, max_ml_rate |-> 0, filter_mask |-> 3, queue_id |-> 0],
     [sampling_rate |-> 1, max_ml_rate |-> 0, filter_mask |-> 3, queue_id |-> 1]}

----------------------------------------------------------------------------
(* xdp_ml_filter: helpers of xdp_ml_packet_processor                       *)

classify_traffic(src_ip, dst_ip, src_port, dst_port, proto) ==
    IF src_port = 22 \/ dst_port = 22 \/ src_port = 53 \/ dst_port = 53
       \/ src_port = 80 \/ dst_port = 80 \/ src_port = 443 \/ dst_port = 443
    THEN FLOW_PRIORITY
    ELSE IF (src_port > 49152 /\ dst_port > 49152)
            \/ (proto # IPPROTO_TCP /\ proto # IPPROTO_UDP)
         THEN FLOW_SUSPICIOUS
         ELSE FLOW_NORMAL

\* the BPF modulo instruction leaves the dividend unchanged when the divisor is 0
BpfMod(x, y) == IF y = 0 THEN x ELSE x % y

\* should_sample testing the counter before incrementing it
should_sample_TestsBeforeIncrement(ctr, sampling_rate) ==
    LET c == (ctr + 1) % U32
    IN  [counter |-> c, ret |-> BpfMod(ctr, sampling_rate) = 0]

\* should_sample on the value of the static counter: new counter and result
should_sample(ctr, sampling_rate) ==
    LET c == (ctr + 1) % U32
    IN  [counter |-> c, ret |-> BpfMod(c, sampling_rate) = 0]

ml_parse_ethernet(b, data) ==
    IF data + ETH_HLEN > Len(b)
    THEN [ret |-> -1, next |-> data, reads |-> {}]
    ELSE IF LoadU16(b, data + 12) # Htons(ETH_P_IP)
         THEN [ret |-> -1, next |-> data, reads |-> {<<data + 12, data + 14>>}]
         ELSE [ret |-> 0, next |-> data + ETH_HLEN, reads |-> {<<data + 12, data + 14>>}]

parse_ip(b, data) ==
    IF data + IPHDR_SIZE > Len(b)
    THEN [ret |-> -1, next |-> data, reads |-> {}, src_ip |-> 0, dst_ip |-> 0,
          proto |-> 0, total_len |-> 0]
    ELSE IF ByteAt(b, data) \div 16 # 4
         THEN [ret |-> -1, next |-> data, reads |-> {<<data, data + 1>>}, src_ip |-> 0,
               dst_ip |-> 0, proto |-> 0, total_len |-> 0]
         ELSE [ret |-> 0,
               next |-> data + (ByteAt(b, data) % 16) * 4,
               reads |-> {<<data, data + 1>>, <<data + 12, data + 16>>,
                          <<data + 16, data + 20>>, <<data + 9, data + 10>>,
                          <<data + 2, data + 4>>},
               src_ip |-> LoadU32(b, data + 12),
               dst_ip |-> LoadU32(b, data + 16),
               proto |-> ByteAt(b, data + 9),
               total_len |-> Ntohs(LoadU16(b, data + 2))]

\* parse_transport checking the TCP header against the size of a UDP header
parse_transport_UdpSizeForTcp(b, data, proto) ==
    IF proto = IPPROTO_TCP \/ proto = IPPROTO_UDP
    THEN IF data + UDPHDR_SIZE > Len(b)
         THEN [ret |-> -1, reads |-> {}, src_port |-> 0, dst_port |-> 0, tcp_flags |-> 0]
         ELSE [ret |-> 0,
               reads |-> {<<data, data + 2>>, <<data + 2, data + 4>>}
                         \cup (IF proto = IPPROTO_TCP THEN {<<data + 13, data + 14>>}
                               ELSE {}),
               src_port |-> Ntohs(LoadU16(b, data)),
               dst_port |-> Ntohs(LoadU16(b, data + 2)),
               tcp_flags |-> IF proto = IPPROTO_TCP THEN ByteAt(b, data + 13) ELSE 0]
    ELSE [ret |-> -1, reads |-> {}, src_port |-> 0, dst_port |-> 0, tcp_flags |-> 0]

parse_transport(b, data, proto) ==
    IF proto = IPPROTO_TCP
    THEN IF data + TCPHDR_SIZE > Len(b)
         THEN [ret |-> -1, reads |-> {}, src_port |-> 0, dst_port |-> 0, tcp_flags |-> 0]
         ELSE [ret |-> 0,
               reads |-> {<<data, data + 2>>, <<data + 2, data + 4>>,
                          <<data + 13, data + 14>>},
               src_port |-> Ntohs(LoadU16(b, data)),
               dst_port |-> Ntohs(LoadU16(b, data + 2)),
               tcp_flags |-> ByteAt(b, data + 13)]
    ELSE IF proto = IPPROTO_UDP
         THEN IF data + UDPHDR_SIZE > Len(b)
              THEN [ret |-> -1, reads |-> {}, src_port |-> 0, dst_port |-> 0,
                    tcp_flags |-> 0]
              ELSE [ret |-> 0,
                    reads |-> {<<data, data + 2>>, <<data + 2, data + 4>>},
                    src_port |-> Ntohs(LoadU16(b, data)),
                    dst_port |-> Ntohs(LoadU16(b, data + 2)),
                    tcp_flags |-> 0]
         ELSE [ret |-> -1, reads |-> {}, src_port |-> 0, dst_port |-> 0, tcp_flags |-> 0]

\* bpf_redirect_map(&xsks_map, queue_id, 0): XDP_REDIRECT when the queue has a
\* socket, otherwise the low bits of the flags argument (0 = XDP_ABORTED)
bpf_redirect_map(xsks, queue_id) ==
    IF queue_id \in xsks THEN XDP_REDIRECT ELSE XDP_ABORTED

\* MlSteer returning the result of bpf_redirect_map unchecked
MlSteer_ReturnsRet(traffic_class, queue_id, xsks, dt) ==
    IF traffic_class = FLOW_PRIORITY \/ traffic_class = FLOW_SUSPICIOUS
    THEN [verdict |-> bpf_redirect_map(xsks, queue_id),
          upd |-> <<<<STAT_ML_PACKETS, 1>>, <<STAT_PROCESSING_TIME, dt>>>>]
    ELSE [verdict |-> XDP_PASS, upd |-> <<<<STAT_PROCESSING_TIME, dt>>>>]

\* MlSteer redirecting priority traffic only
MlSteer_PriorityOnly(traffic_class, queue_id, xsks, dt) ==
    IF traffic_class = FLOW_PRIORITY
    THEN IF bpf_redirect_map(xsks, queue_id) = XDP_REDIRECT
         THEN [verdict |-> XDP_REDIRECT,
               upd |-> <<<<STAT_ML_PACKETS, 1>>, <<STAT_PROCESSING_TIME, dt>>>>]
         ELSE [verdict |-> XDP_PASS,
               upd |-> <<<<STAT_ML_PACKETS, 1>>, <<STAT_PROCESSING_TIME, dt>>>>]
    ELSE [verdict |-> XDP_PASS, upd |-> <<<<STAT_PROCESSING_TIME, dt>>>>]

\* the verdict once a packet has been selected by the sampling decision
MlSteer(traffic_class, queue_id, xsks, dt) ==
    IF traffic_class = FLOW_PRIORITY \/ traffic_class = FLOW_SUSPICIOUS
    THEN IF bpf_redirect_map(xsks, queue_id) = XDP_REDIRECT
         THEN [verdict |-> XDP_REDIRECT,
               upd |-> <<<<STAT_ML_PACKETS, 1>>, <<STAT_PROCESSING_TIME, dt>>>>]
         ELSE [verdict |-> XDP_PASS,
               upd |-> <<<<STAT_ML_PACKETS, 1>>, <<STAT_PROCESSING_TIME, dt>>>>]
    ELSE [verdict |-> XDP_PASS, upd |-> <<<<STAT_PROCESSING_TIME, dt>>>>]

\* sampling_rate = config ? config->sampling_rate : 100, with config the result
\* of the lookup of key 0 in config_map
config_sampling_rate(cmap) ==
    IF 0 \in DOMAIN cmap THEN cmap[0].sampling_rate ELSE DEFAULT_SAMPLING_RATE

\* one invocation of xdp_ml_packet_processor on frame bytes b: verdict, the
\* update_stat calls in order, the new sampling counter, the byte ranges read
xdp_ml_packet_processor(b, cmap, ctr, xsks, dt) ==
    LET eth == ml_parse_ethernet(b, 0)
        config == 0 \in DOMAIN cmap
        sampling_rate == config_sampling_rate(cmap)
        queue_id == IF config THEN cmap[0].queue_id ELSE 0
        ip  == parse_ip(b, eth.next)
        l4  == parse_transport(b, ip.next, ip.proto)
        smp == should_sample(ctr, sampling_rate)
        cls == classify_traffic(ip.src_ip, ip.dst_ip, l4.src_port, l4.dst_port, ip.proto)
        out == MlSteer(cls, queue_id, xsks, dt)
        protoUpd == IF ip.proto = IPPROTO_TCP THEN <<<<STAT_TCP_PACKETS, 1>>>>
                    ELSE IF ip.proto = IPPROTO_UDP THEN <<<<STAT_UDP_PACKETS, 1>>>>
                    ELSE <<>>
        fail(reads) == [verdict |-> XDP_PASS,
                        upd |-> <<<<STAT_TOTAL_PACKETS, 1>>, <<STAT_DROPPED_PACKETS, 1>>>>,
                        counter |-> ctr, reads |-> reads, sampled |-> FALSE,
                        class |-> FLOW_NORMAL]
    IN  IF eth.ret < 0 THEN fail(eth.reads)
        ELSE IF ip.ret < 0 THEN fail(eth.reads \cup ip.reads)
        ELSE IF l4.ret < 0 THEN fail(eth.reads \cup ip.reads \cup l4.reads)
        ELSE IF ~smp.ret
             THEN [verdict |-> XDP_PASS,
                   upd |-> <<<<STAT_TOTAL_PACKETS, 1>>>> \o protoUpd
                           \o <<<<STAT_FILTERED_PACKETS, 1>>, <<STAT_PROCESSING_TIME, dt>>>>,
                   counter |-> smp.counter,
                   reads |-> eth.reads \cup ip.reads \cup l4.reads,
                   sampled |-> FALSE, class |-> FLOW_NORMAL]
             ELSE [verdict |-> out.verdict,
                   upd |-> <<<<STAT_TOTAL_PACKETS, 1>>>> \o protoUpd
                           \o <<<<STAT_FILTERED_PACKETS, 1>>, <<STAT_SAMPLED_PACKETS, 1>>>>
                           \o out.upd,
                   counter |-> smp.counter,
                   reads |-> eth.reads \cup ip.reads \cup l4.reads,
                   sampled |-> TRUE, class |-> cls]

----------------------------------------------------------------------------
(* xdp_preproc.c: xdp_packet_processor                                     *)

parse_ethernet(b, data) ==
    IF data + ETH_HLEN > Len(b)
    THEN [ret |-> -1, next |-> data, reads |-> {}]
    ELSE IF LoadU16(b, data + 12) # Htons(ETH_P_IP)
         THEN [ret |-> -1, next |-> data, reads |-> {<<data + 12, data + 14>>}]
         ELSE [ret |-> 0, next |-> data + ETH_HLEN, reads |-> {<<data + 12, data + 14>>}]

parse_ipv4(b, data) ==
    LET none(reads) == [ret |-> -1, next |-> data, reads |-> reads, src_ip |-> 0,
                        dst_ip |-> 0, total_len |-> 0]
        ihl == ByteAt(b, data) % 16
        ip_header_len == ihl * 4
    IN  IF data + IPHDR_SIZE > Len(b) THEN none({})
        ELSE IF ByteAt(b, data) \div 16 # 4 \/ ihl < 5 THEN none({<<data, data + 1>>})
        ELSE IF data + ip_header_len > Len(b) THEN none({<<data, data + 1>>})
        ELSE IF ByteAt(b, data + 9) # IPPROTO_UDP
             THEN none({<<data, data + 1>>, <<data + 9, data + 10>>})
             ELSE [ret |-> 0,
                   next |-> data + ip_header_len,
                   reads |-> {<<data, data + 1>>, <<data + 9, data + 10>>,
                              <<data + 12, data + 16>>, <<data + 16, data + 20>>,
                              <<data + 2, data + 4>>},
                   src_ip |-> LoadU32(b, data + 12),
                   dst_ip |-> LoadU32(b, data + 16),
                   total_len |-> Ntohs(LoadU16(b, data + 2))]

parse_udp(b, data) ==
    IF data + UDPHDR_SIZE > Len(b)
    THEN [ret |-> -1, reads |-> {}, src_port |-> 0, dst_port |-> 0]
    ELSE [ret |-> 0,
          reads |-> {<<data, data + 2>>, <<data + 2, data + 4>>},
          src_port |-> LoadU16(b, data),
          dst_port |-> LoadU16(b, data + 2)]

\* bpf_ringbuf_reserve(&feature_rb, ...): NULL when the ring buffer is full
bpf_ringbuf_reserve(used) == IF used < RbCap THEN used + 1 ELSE NULL

\* one invocation of xdp_packet_processor on frame bytes b
xdp_packet_processor(b, used, dt) ==
    LET eth == parse_ethernet(b, 0)
        ip  == parse_ipv4(b, eth.next)
        udp == parse_udp(b, ip.next)
        rsv == bpf_ringbuf_reserve(used)
        fail(reads) == [verdict |-> XDP_PASS,
                        upd |-> <<<<STAT_PACKETS_TOTAL, 1>>, <<STAT_PACKETS_DROPPED, 1>>>>,
                        rb_used |-> used, reads |-> reads, submitted |-> FALSE]
    IN  IF eth.ret < 0 THEN fail(eth.reads)
        ELSE IF ip.ret < 0 THEN fail(eth.reads \cup ip.reads)
        ELSE IF udp.ret < 0 THEN fail(eth.reads \cup ip.reads \cup udp.reads)
        ELSE IF rsv = NULL THEN fail(eth.reads \cup ip.reads \cup udp.reads)
        ELSE [verdict |-> XDP_PASS,
              upd |-> <<<<STAT_PACKETS_TOTAL, 1>>, <<STAT_PACKETS_UDP, 1>>,
                        <<STAT_PP_PROCESSING_TIME, dt>>>>,
              rb_used |-> rsv,
              reads |-> eth.reads \cup ip.reads \cup udp.reads,
              submitted |-> TRUE]

----------------------------------------------------------------------------
(* The classifiers on one CPU: each invocation runs to completion          *)

Programs == {"xdp_packet_processor", "xdp_ml_packet_processor"}

StatsEntries(prog) ==
    IF prog = "xdp_ml_packet_processor" THEN ML_STATS_ENTRIES ELSE PP_STATS_ENTRIES

NoFrame == [cut |-> 0, etype |-> 0, ver |-> 0, ihl |-> 0, proto |-> 0, ports |-> <<0, 0>>]

NoObservation ==
    [prog |-> "none", frame |-> NoFrame, verdict |-> XDP_PASS, pre |-> <<>>,
     cfg |-> ZeroConfig, xsks |-> {}, reads |-> {}, sampled |-> FALSE,
     class |-> FLOW_NORMAL, submitted |-> FALSE]

\* state of the drainer and of the CPUs while only the classifier is observed
XskIdle ==
    /\ fq_size = NUM_FRAMES
    /\ fq = <<>>
    /\ rx = <<>>
    /\ pc = "start"
    /\ batch = <<>>
    /\ idx_rx = 0
    /\ umem_frame_addr = [i \in 0..(NUM_FRAMES - 1) |-> 0]
    /\ umem_frame_free = 0
    /\ running = 1
    /\ stats = [rx_packets |-> 0, rx_bytes |-> 0, ml_features_extracted |-> 0,
                ml_predictions_made |-> 0]
    /\ ml_result = NULL
    /\ ml_func = "example_ml_processor"
    /\ nSteered = 0
    /\ lastBatch = [peeked |-> <<>>, published |-> <<>>]
    /\ delivered = <<>>
    /\ umem = [a \in {i * FRAME_SIZE : i \in 0..(NUM_FRAMES - 1)} |-> NoFrame]
    /\ window = 0
    /\ stop_peeks = 0

CpuIdle ==
    /\ cpu = [c \in 1..NumCpus |-> [pc |-> "idle", reg |-> 0]]
    /\ verdicts = [c \in 1..NumCpus |-> <<>>]

\* locals of xdp_ml_packet_processor / xdp_packet_processor on a CPU that is
\* not running the program
SmpIdleCpu ==
    [pc |-> "idle", reg |-> 0, protocol |-> 0, traffic_class |-> FLOW_NORMAL,
     sampling_rate |-> 0, queue_id |-> NULL, verdict |-> XDP_PASS]

SmpIdle == inflight = [c \in 1..NumCpus |-> SmpIdleCpu]

NoProbe == [src_port |-> 0, dst_port |-> 0, proto |-> 0, kernel |-> NULL, user |-> NULL]

\* no frame has been given to extract_ml_features
NoFeature == [frame |-> [ff |-> NoFrame, payload |-> <<>>, padded |-> FALSE], out |-> <<>>]

\* no utility process is modelled
NoUtil == [prog |-> "none", env |-> [none |-> TRUE], pc |-> "exited", running |-> 1,
           ifindex |-> -1, exit |-> 0]

UtilIdle == util = NoUtil /\ iface = "none"

FnIdle == probe = NoProbe /\ feature = NoFeature /\ UtilIdle

InitClassifier ==
    /\ attached \in Programs
    /\ stats_map = [k \in 0..(StatsEntries(attached) - 1) |-> 0]
    /\ config_map = [k \in {0} |-> ZeroConfig]
    /\ xsks_map = {}
    /\ counter = 0
    /\ rb_used = 0
    /\ nInv = 0
    /\ last = NoObservation
    /\ XskIdle
    /\ CpuIdle
    /\ SmpIdle
    /\ FnIdle

\* the control plane installs a configuration (bpf_map_update_elem on
\* config_map); the observation of the last invocation is cleared, so that it
\* always belongs to the installed configuration
UpdateConfig ==
    /\ attached = "xdp_ml_packet_processor"
    /\ \E c \in Configs : c # config_map[0] /\ config_map' = [config_map EXCEPT ![0] = c]
    /\ last' = NoObservation
    /\ UNCHANGED <<attached, stats_map, xsks_map, counter, rb_used, nInv>>
    /\ UNCHANGED <<xskVars, cpuVars, smpVars, fnVars>>

\* an AF_XDP socket is bound to queue 0 (entry of xsks_map set)
SteerSet ==
    /\ attached = "xdp_ml_packet_processor"
    /\ xsks_map = {}
    /\ xsks_map' = {0}
    /\ last' = NoObservation
    /\ UNCHANGED <<attached, stats_map, config_map, counter, rb_used, nInv>>
    /\ UNCHANGED <<xskVars, cpuVars, smpVars, fnVars>>

MlInvoke ==
    /\ attached = "xdp_ml_packet_processor"
    /\ nInv < MaxInvocations
    /\ \E ff \in FrameFields, dt \in ElapsedNs :
          LET r == xdp_ml_packet_processor(FrameBytes(ff), config_map, counter, xsks_map, dt)
          IN  /\ stats_map' = ApplyUpdates(stats_map, r.upd)
              /\ counter' = r.counter
              /\ last' = [prog |-> attached, frame |-> ff, verdict |-> r.verdict,
                          pre |-> stats_map, cfg |-> config_map[0], xsks |-> xsks_map,
                          reads |-> r.reads, sampled |-> r.sampled, class |-> r.class,
                          submitted |-> FALSE]
    /\ nInv' = nInv + 1
    /\ UNCHANGED <<attached, config_map, xsks_map, rb_used>>
    /\ UNCHANGED <<xskVars, cpuVars, smpVars, fnVars>>

PpInvoke ==
    /\ attached = "xdp_packet_processor"
    /\ nInv < MaxInvocations
    /\ \E ff \in FrameFields, dt \in ElapsedNs :
          LET r == xdp_packet_processor(FrameBytes(ff), rb_used, dt)
          IN  /\ stats_map' = ApplyUpdates(stats_map, r.upd)
              /\ rb_used' = r.rb_used
              /\ last' = [prog |-> attached, frame |-> ff, verdict |-> r.verdict,
                          pre |-> stats_map, cfg |-> config_map[0], xsks |-> xsks_map,
                          reads |-> r.reads, sampled |-> FALSE, class |-> FLOW_NORMAL,
                          submitted |-> r.submitted]
    /\ nInv' = nInv + 1
    /\ UNCHANGED <<attached, config_map, xsks_map, counter>>
    /\ UNCHANGED <<xskVars, cpuVars, smpVars, fnVars>>

NextClassifier == UpdateConfig \/ SteerSet \/ MlInvoke \/ PpInvoke

SpecClassifier == InitClassifier /\ [][NextClassifier]_vars

----------------------------------------------------------------------------
(* The ML classifier on one CPU under a configuration that is installed     *)
(* before the first packet and never replaced                               *)

InitStride ==
    /\ attached = "xdp_ml_packet_processor"
    /\ stats_map = [k \in 0..(ML_STATS_ENTRIES - 1) |-> 0]
    /\ config_map \in [{0} -> {c \in Configs : c.sampling_rate >= 1}]
    /\ xsks_map = {}
    /\ counter = 0
    /\ rb_used = 0
    /\ nInv = 0
    /\ last = NoObservation
    /\ XskIdle
    /\ CpuIdle
    /\ SmpIdle
    /\ FnIdle

NextStride == MlInvoke \/ SteerSet

SpecStride == InitStride /\ [][NextStride]_vars

(* C11: with a constant stride N >= 1 on a single CPU, of the k packets     *)
(* that have passed the filter exactly floor(k / N) have been selected by   *)
(* should_sample; packets that fail parsing do not advance the stride.      *)
C11_OneInStride ==
    stats_map[STAT_SAMPLED_PACKETS]
        = stats_map[STAT_FILTERED_PACKETS] \div config_map[0].sampling_rate

\* stride 2: the second packet that passed the filter is the first one selected
C11_Witness ==
    /\ config_map[0].sampling_rate = 2
    /\ stats_map[STAT_FILTERED_PACKETS] = 2
    /\ stats_map[STAT_SAMPLED_PACKETS] = 1
    /\ last.sampled

----------------------------------------------------------------------------
(* What a frame is, read off the fields it was built from                  *)

IsMl == last.prog = "xdp_ml_packet_processor"

IsPp == last.prog = "xdp_packet_processor"

Invoked == last.prog # "none"

FrameLen(ff) == Len(FrameBytes(ff))

EthTooShort(ff) == FrameLen(ff) < ETH_HLEN

NotIPv4(ff) == ~EthTooShort(ff) /\ ff.etype # ETH_P_IP

IpTruncated(ff) ==
    /\ ~EthTooShort(ff) /\ ff.etype = ETH_P_IP
    /\ FrameLen(ff) < ETH_HLEN + IPHDR_SIZE

IpInvalid(ff) ==
    /\ ~EthTooShort(ff) /\ ff.etype = ETH_P_IP /\ ~IpTruncated(ff)
    /\ (ff.ver # 4 \/ ff.ihl < 5)

IpHeaderOk(ff) ==
    /\ ~EthTooShort(ff) /\ ff.etype = ETH_P_IP /\ ~IpTruncated(ff) /\ ~IpInvalid(ff)

L4Truncated(ff) ==
    /\ IpHeaderOk(ff)
    /\ \/ ff.proto = IPPROTO_TCP /\ FrameLen(ff) < ETH_HLEN + ff.ihl * 4 + TCPHDR_SIZE
       \/ ff.proto = IPPROTO_UDP /\ FrameLen(ff) < ETH_HLEN + ff.ihl * 4 + UDPHDR_SIZE

ParseFails(ff) ==
    EthTooShort(ff) \/ NotIPv4(ff) \/ IpTruncated(ff) \/ IpInvalid(ff) \/ L4Truncated(ff)

DroppedIdx == IF IsMl THEN STAT_DROPPED_PACKETS ELSE STAT_PACKETS_DROPPED

TotalIdx == IF IsMl THEN STAT_TOTAL_PACKETS ELSE STAT_PACKETS_TOTAL

\* growth of a counter during the last invocation
Delta(k) == stats_map[k] - last.pre[k]

\* bit of the protocol in the filter mask: TCP, UDP, ICMP in the order of
\* enable_tcp, enable_udp, enable_icmp
ProtocolEnabled(mask, proto) ==
    LET bit == IF proto = IPPROTO_TCP THEN 1 ELSE IF proto = IPPROTO_UDP THEN 2 ELSE 4
    IN  (mask \div bit) % 2 = 1

----------------------------------------------------------------------------
(* C4: both classifiers return only XDP_PASS, and the ML classifier also    *)
(* XDP_REDIRECT; never XDP_DROP, XDP_ABORTED or XDP_TX, whatever the frame, *)
(* the configuration and the content of xsks_map.                           *)
C4_NeverInterferes ==
    Invoked =>
        /\ last.verdict \in {XDP_PASS, XDP_REDIRECT}
        /\ IsPp => last.verdict = XDP_PASS

\* a sampled priority packet whose redirect failed
C4_Witness ==
    /\ IsMl /\ last.sampled /\ last.class = FLOW_PRIORITY
    /\ bpf_redirect_map(last.xsks, last.cfg.queue_id) = XDP_ABORTED
    /\ last.verdict = XDP_PASS

(* C5: a frame that fails a parse step (Ethernet too short or not IPv4,     *)
(* IPv4 header truncated or invalid, TCP/UDP header truncated) ends with    *)
(* XDP_PASS, dropped_packets + 1, total_packets + 1, and is neither         *)
(* submitted to the ring buffer nor redirected.                             *)
C5_ParseFailureDropped ==
    (Invoked /\ ParseFails(last.frame)) =>
        /\ last.verdict = XDP_PASS
        /\ Delta(DroppedIdx) = 1
        /\ Delta(TotalIdx) = 1
        /\ ~last.submitted

(* C6: every byte range a classifier reads lies inside [data, data_end).    *)
C6_ReadsInBounds ==
    Invoked =>
        \A r \in last.reads : r[1] >= 0 /\ r[2] <= FrameLen(last.frame)

\* a TCP header read behind IP options, up to its flags byte
C6_Witness ==
    /\ IsMl /\ last.frame.ihl > 5 /\ last.frame.proto = IPPROTO_TCP
    /\ <<ETH_HLEN + last.frame.ihl * 4 + 13, ETH_HLEN + last.frame.ihl * 4 + 14>>
          \in last.reads

(* C7: in both classifiers an IPv4 header with version # 4 or ihl < 5 ends  *)
(* the invocation with XDP_PASS and dropped_packets + 1; the packet is not  *)
(* counted as tcp, udp, filtered or sampled and is not steered.             *)
C7_BadIpHeaderDropped ==
    (Invoked /\ IpInvalid(last.frame)) =>
        /\ last.verdict = XDP_PASS
        /\ Delta(DroppedIdx) = 1
        /\ IsMl => /\ Delta(STAT_TCP_PACKETS) = 0
                   /\ Delta(STAT_UDP_PACKETS) = 0
                   /\ Delta(STAT_FILTERED_PACKETS) = 0
                   /\ Delta(STAT_SAMPLED_PACKETS) = 0
                   /\ Delta(STAT_ML_PACKETS) = 0
        /\ IsPp => Delta(STAT_PACKETS_UDP) = 0 /\ ~last.submitted

C9_FilteredOutPasses ==
    (IsMl /\ IpHeaderOk(last.frame) /\ last.cfg # ZeroConfig
          /\ ~ProtocolEnabled(last.cfg.filter_mask, last.frame.proto))
        => /\ last.verdict = XDP_PASS
           /\ Delta(STAT_FILTERED_PACKETS) = 0
           /\ Delta(STAT_SAMPLED_PACKETS) = 0
           /\ Delta(STAT_ML_PACKETS) = 0

\* records in feature_rb before the last invocation: nothing consumes them
RbUsedBefore == rb_used - (IF last.submitted THEN 1 ELSE 0)

\* the last invocation reached bpf_ringbuf_reserve and got NULL
ReserveFailed ==
    /\ IsPp /\ ~ParseFails(last.frame) /\ last.frame.proto = IPPROTO_UDP
    /\ bpf_ringbuf_reserve(RbUsedBefore) = NULL

\* the last invocation reached bpf_redirect_map and did not get XDP_REDIRECT
RedirectFailed ==
    /\ IsMl /\ last.sampled /\ last.class \in {FLOW_PRIORITY, FLOW_SUSPICIOUS}
    /\ bpf_redirect_map(last.xsks, last.cfg.queue_id) # XDP_REDIRECT

(* C12: a classifier that has selected a packet for user space and cannot   *)
(* hand it over (bpf_ringbuf_reserve returns NULL, bpf_redirect_map does    *)
(* not return XDP_REDIRECT) increments dropped_packets by 1 and returns     *)
(* XDP_PASS.                                                                *)
C12_HandoverFailureCounted ==
    (ReserveFailed \/ RedirectFailed) =>
        /\ last.verdict = XDP_PASS
        /\ Delta(DroppedIdx) = 1

(* C13: steered_packets counts exactly the invocations that returned        *)
(* XDP_REDIRECT. The counter starts at 0 and only invocations change it, so *)
(* this is: an invocation adds 1 to STAT_ML_PACKETS when it returns         *)
(* XDP_REDIRECT and 0 otherwise.                                            *)
C13_SteeredCountsRedirects ==
    IsMl => Delta(STAT_ML_PACKETS) = (IF last.verdict = XDP_REDIRECT THEN 1 ELSE 0)

(* C14: a well-formed IPv4 packet with complete headers, whatever its       *)
(* protocol, leaves dropped_packets unchanged unless the hand-over to user  *)
(* space fails.                                                             *)
C14_DroppedOnlyOnFailure ==
    (Invoked /\ ~ParseFails(last.frame) /\ ~ReserveFailed /\ ~RedirectFailed)
        => Delta(DroppedIdx) = 0

\* slots of the ML stats_map that have no STAT_ index: where a counter of the
\* other protocols could live
UnnamedStats == {k \in 0..(ML_STATS_ENTRIES - 1) : k > STAT_PROCESSING_TIME}

(* C15: a packet that passes the IPv4 header checks adds 1 to exactly one   *)
(* of the protocol counters tcp_packets, udp_packets, other_packets, by its *)
(* protocol, whether or not its L4 header is complete.                      *)
C15_OneProtocolCounter ==
    (IsMl /\ IpHeaderOk(last.frame)) =>
        LET p == last.frame.proto
        IN  /\ Delta(STAT_TCP_PACKETS) = (IF p = IPPROTO_TCP THEN 1 ELSE 0)
            /\ Delta(STAT_UDP_PACKETS) = (IF p = IPPROTO_UDP THEN 1 ELSE 0)
            /\ IF p \in {IPPROTO_TCP, IPPROTO_UDP}
               THEN \A o \in UnnamedStats : Delta(o) = 0
               ELSE \E o \in UnnamedStats :
                       /\ Delta(o) = 1
                       /\ \A q \in UnnamedStats \ {o} : Delta(q) = 0

----------------------------------------------------------------------------
(* Feature extraction of the drainer: calculate_entropy and                 *)
(* extract_ml_features of part_001, compute_flow_hash of xdp_ml_filter.c    *)

\* ntohl on the little-endian host
Ntohl(x) == Ntohs(x % 65536) * 65536 + Ntohs(x \div 65536)

\* bitwise exclusive or
RECURSIVE Xor(_, _)
Xor(a, b) ==
    IF a = 0 THEN b
    ELSE IF b = 0 THEN a
    ELSE ((a + b) % 2) + 2 * Xor(a \div 2, b \div 2)

\* compute_flow_hash: the __u64 result as four 16-bit words, least significant
\* first. src_ip lands in words 0 and 1, dst_ip << 32 in words 2 and 3,
\* src_port << 16 in word 1, dst_port << 48 in word 3, proto << 8 in word 0
compute_flow_hash(src_ip, dst_ip, src_port, dst_port, proto) ==
    <<Xor(src_ip % 65536, proto * 256),
      Xor(src_ip \div 65536, src_port),
      dst_ip % 65536,
      Xor(dst_ip \div 65536, dst_port)>>

\* feature->flow_hash of extract_ml_features, in the same representation
ml_feature_flow_hash(src_ip, dst_ip, src_port, dst_port, protocol) ==
    <<Xor(src_ip % 65536, protocol * 256),
      Xor(src_ip \div 65536, src_port),
      dst_ip % 65536,
      Xor(dst_ip \div 65536, dst_port)>>

\* log2 of a power of two
RECURSIVE Log2(_)
Log2(n) == IF n <= 1 THEN 0 ELSE 1 + Log2(n \div 2)

IsPowerOfTwo(n) == n >= 1 /\ \E j \in 0..16 : n = 2 ^ j

\* freq[v] after the counting loop over data[off .. off + len - 1]
Freq(data, off, len, v) == Cardinality({i \in 1..len : ByteAt(data, off + i - 1) = v})

\* the byte values with freq[i] > 0
Present(data, off, len) == {ByteAt(data, off + i - 1) : i \in 1..len}

\* the payloads whose entropy the model computes: every byte value present
\* occurs len / 2^j times, so that p, log2(p) and the sum are exact doubles
Dyadic(data, off, len) ==
    \A v \in Present(data, off, len) :
        LET f == Freq(data, off, len, v)
        IN  len % f = 0 /\ IsPowerOfTwo(len \div f)

\* len * entropy: the loop  for (i = 0; i < 256; i++) if (freq[i] > 0) ...
\* over the byte values lo..hi, adding freq[i] * -log2(freq[i] / len)
RECURSIVE EntropySum(_, _, _, _, _)
EntropySum(data, off, len, lo, hi) ==
    IF lo = hi
    THEN LET f == Freq(data, off, len, lo)
         IN  IF f > 0 THEN f * Log2(len \div f) ELSE 0
    ELSE EntropySum(data, off, len, lo, (lo + hi) \div 2)
         + EntropySum(data, off, len, (lo + hi) \div 2 + 1, hi)

\* entropy * 32, truncated towards zero
Entropy32(data, off, len) == (32 * EntropySum(data, off, len, 0, 255)) \div len

\* calculate_entropy returning 32 for every non-empty payload
calculate_entropy_Constant(data, off, len, ovf) ==
    IF len = 0 THEN 0 ELSE 32

\* calculate_entropy(data + off, len): (uint8_t)(entropy * 32); a product above
\* 255 is outside uint8_t and the conversion yields ovf
calculate_entropy(data, off, len, ovf) ==
    IF len = 0 THEN 0
    ELSE IF Entropy32(data, off, len) > 255 THEN ovf
    ELSE Entropy32(data, off, len)

\* results of converting the double 256.0 to uint8_t: the low byte of the
\* integer conversion, or the saturated value
OverflowedCasts == {0, 255}

ml_feature_traffic_class(src_port, dst_port, protocol) ==
    IF src_port = 22 \/ dst_port = 22 \/ src_port = 53 \/ dst_port = 53
       \/ src_port = 80 \/ dst_port = 80 \/ src_port = 443 \/ dst_port = 443
    THEN 2
    ELSE IF (src_port > 49152 /\ dst_port > 49152)
            \/ (protocol # IPPROTO_TCP /\ protocol # IPPROTO_UDP)
         THEN 1
         ELSE 0

\* extract_ml_features rejecting every frame that is not TCP
extract_ml_features_ret_TcpOnly(b, pkt_len) ==
    IF pkt_len < ETH_HLEN THEN -1
    ELSE IF Ntohs(LoadU16(b, 12)) # ETH_P_IP THEN -1
    ELSE IF ETH_HLEN + IPHDR_SIZE > pkt_len THEN -1
    ELSE IF ByteAt(b, ETH_HLEN + 9) # IPPROTO_TCP THEN -1
    ELSE 0

\* return value of extract_ml_features(pkt_data, pkt_len, &feature)
extract_ml_features_ret(b, pkt_len) ==
    IF pkt_len < ETH_HLEN THEN -1
    ELSE IF Ntohs(LoadU16(b, 12)) # ETH_P_IP THEN -1
    ELSE IF ETH_HLEN + IPHDR_SIZE > pkt_len THEN -1
    ELSE 0

\* the record extract_ml_features fills in; b holds the bytes at pkt_data
extract_ml_features(b, pkt_len, ovf) ==
    LET ip == ETH_HLEN
        protocol == ByteAt(b, ip + 9)
        transport_hdr == ip + (ByteAt(b, ip) % 16) * 4
        has_ports ==
            \/ protocol = IPPROTO_TCP /\ transport_hdr + TCPHDR_SIZE <= pkt_len
            \/ protocol = IPPROTO_UDP /\ transport_hdr + UDPHDR_SIZE <= pkt_len
        src_port == IF has_ports THEN Ntohs(LoadU16(b, transport_hdr)) ELSE 0
        dst_port == IF has_ports THEN Ntohs(LoadU16(b, transport_hdr + 2)) ELSE 0
        is_tcp == protocol = IPPROTO_TCP /\ transport_hdr + TCPHDR_SIZE <= pkt_len
        src_ip == Ntohl(LoadU32(b, ip + 12))
        dst_ip == Ntohl(LoadU32(b, ip + 16))
        header_len ==
            transport_hdr
            + (IF protocol = IPPROTO_TCP THEN (ByteAt(b, transport_hdr + 12) \div 16) * 4
               ELSE IF protocol = IPPROTO_UDP THEN UDPHDR_SIZE
               ELSE 0)
        payload_len == IF header_len < pkt_len THEN (pkt_len - header_len) % 65536 ELSE 0
    IN  IF extract_ml_features_ret(b, pkt_len) # 0
        THEN [ret |-> -1]
        ELSE [ret |-> 0,
              src_ip |-> src_ip,
              dst_ip |-> dst_ip,
              protocol |-> protocol,
              pkt_len |-> pkt_len % 65536,
              ttl |-> ByteAt(b, ip + 8),
              src_port |-> src_port,
              dst_port |-> dst_port,
              tcp_flags |-> IF is_tcp THEN ByteAt(b, transport_hdr + 13) ELSE 0,
              window_size |-> IF is_tcp THEN Ntohs(LoadU16(b, transport_hdr + 14)) ELSE 0,
              flow_hash |-> ml_feature_flow_hash(src_ip, dst_ip, src_port, dst_port, protocol),
              header_len |-> header_len,
              payload_len |-> payload_len,
              packet_entropy |-> IF header_len < pkt_len
                                 THEN calculate_entropy(b, header_len, payload_len, ovf)
                                 ELSE 0,
              traffic_class |-> ml_feature_traffic_class(src_port, dst_port, protocol),
              direction |-> IF src_port > dst_port THEN 1 ELSE 0]

----------------------------------------------------------------------------
(* The AF_XDP socket: fill ring, RX ring and the drainer of part_001       *)

\* capacity of the RX ring
RxRingSize == NUM_FRAMES - 1

\* the frames xdp_ml_packet_processor redirects when every packet is sampled
\* and the queue has a socket: the only frames that reach the RX ring
SteeredFrames ==
    {ff \in FrameFields :
        xdp_ml_packet_processor(
            FrameBytes(ff),
            [k \in {0} |-> [sampling_rate |-> 1, max_ml_rate |-> 0, filter_mask |-> 3,
                            queue_id |-> 0]],
            0, {0}, 1).verdict = XDP_REDIRECT}

\* the steered frames the model puts on the RX ring: a TCP and a UDP frame of
\* different lengths
RxFrames ==
    {ff \in SteeredFrames : ff.cut = 200 /\ ff.ihl = 5 /\ ff.ports = <<40000, 80>>}

\* frame offsets of the UMEM
UmemAddrs == {i * FRAME_SIZE : i \in 0..(NUM_FRAMES - 1)}

\* values an out-of-range read of umem_frame_addr may yield: an address of the
\* UMEM or one outside it
GarbageAddrs == {0, NUM_FRAMES * FRAME_SIZE}

\* xsk_ring_prod__reserve: all nb slots or none
xsk_ring_prod__reserve(size, used, nb) == IF size - used >= nb THEN nb ELSE 0

\* xsk_ring_cons__peek: at most nb of the available descriptors
xsk_ring_cons__peek(avail, nb) == Min(avail, nb)

\* xsk_ring_cons__rx_desc reading the batch from its newest descriptor
xsk_ring_cons__rx_desc_Newest(descs, idx) == descs[Len(descs) - idx]

\* xsk_ring_cons__rx_desc(&rx, idx_rx): the descriptor at position idx of the
\* peeked ones, oldest first
xsk_ring_cons__rx_desc(descs, idx) == descs[idx + 1]

\* umem_frame_addr[index]; outside the array the read yields an arbitrary value g
ReadFrameAddr(frame_addr, index, g) ==
    IF index \in DOMAIN frame_addr THEN frame_addr[index] ELSE g

\* the refill loop stopping one frame early
RefillAddrs_OneShort(frame_addr, free, ret, g) ==
    [k \in 1..(ret - 1) |-> ReadFrameAddr(frame_addr, (free - k + U32) % U32, g[k])]

\* the refill loop: ret times  fill_addr = umem_frame_addr[--umem_frame_free]
RefillAddrs(frame_addr, free, ret, g) ==
    [k \in 1..ret |-> ReadFrameAddr(frame_addr, (free - k + U32) % U32, g[k])]

RefillInRange(free, ret) == \A k \in 1..ret : (free - k + U32) % U32 < NUM_FRAMES

Addrs(descs) == [k \in 1..Len(descs) |-> descs[k].addr]

ClsIdle ==
    /\ attached = "xdp_ml_packet_processor"
    /\ stats_map = [k \in 0..(ML_STATS_ENTRIES - 1) |-> 0]
    /\ config_map = [k \in {0} |-> ZeroConfig]
    /\ xsks_map = {}
    /\ counter = 0
    /\ rb_used = 0
    /\ nInv = 0
    /\ last = NoObservation

\* the drainer before configure_xsk_socket
\* the drainer before configure_xsk_socket, with callback f
XskStartWith(f) ==
    /\ fq_size \in {NUM_FRAMES - 1, NUM_FRAMES}
    /\ fq = <<>>
    /\ rx = <<>>
    /\ pc = "start"
    /\ batch = <<>>
    /\ idx_rx = 0
    /\ umem_frame_addr = [i \in 0..(NUM_FRAMES - 1) |-> 0]
    /\ umem_frame_free = 0
    /\ running = 1
    /\ stats = [rx_packets |-> 0, rx_bytes |-> 0, ml_features_extracted |-> 0,
                ml_predictions_made |-> 0]
    /\ ml_result = NULL
    /\ ml_func = f
    /\ nSteered = 0
    /\ lastBatch = [peeked |-> <<>>, published |-> <<>>]
    /\ delivered = <<>>
    /\ umem = [a \in UmemAddrs |-> NoFrame]
    /\ window = 0
    /\ stop_peeks = 0

\* main gives example_ml_processor to run_ml_processor
XskStart == XskStartWith("example_ml_processor")

InitXsk ==
    /\ XskStart
    /\ ClsIdle
    /\ CpuIdle
    /\ SmpIdle
    /\ FnIdle

\* configure_xsk_socket filling the ring whatever the reservation returned
ConfigureXskSocket_NoReserveCheck ==
    /\ pc = "start"
    /\ \E created \in BOOLEAN :
          IF ~created
          THEN /\ pc' = "failed"
               /\ UNCHANGED <<fq, umem_frame_addr, umem_frame_free>>
          ELSE /\ umem_frame_addr' = [i \in 0..(NUM_FRAMES - 1) |-> i * FRAME_SIZE]
               /\ umem_frame_free' = NUM_FRAMES
               /\ fq' = fq \o [k \in 1..NUM_FRAMES |-> (k - 1) * FRAME_SIZE]
               /\ pc' = "loop"
    /\ UNCHANGED <<fq_size, rx, batch, idx_rx, running, stats, nSteered, lastBatch,
                   delivered, umem, window, stop_peeks>>
    /\ UNCHANGED <<ml_result, ml_func>>
    /\ UNCHANGED <<clsVars, cpuVars, smpVars, fnVars>>

\* configure_xsk_socket, and main's reaction to its result
ConfigureXskSocket ==
    /\ pc = "start"
    /\ \E created \in BOOLEAN :
          IF ~created
          THEN /\ pc' = "failed"
               /\ UNCHANGED <<fq, umem_frame_addr, umem_frame_free>>
          ELSE /\ umem_frame_addr' = [i \in 0..(NUM_FRAMES - 1) |-> i * FRAME_SIZE]
               /\ umem_frame_free' = NUM_FRAMES
               /\ IF xsk_ring_prod__reserve(fq_size, Len(fq), NUM_FRAMES) # NUM_FRAMES
                  THEN pc' = "failed" /\ fq' = fq
                  ELSE /\ fq' = fq \o [k \in 1..NUM_FRAMES |-> (k - 1) * FRAME_SIZE]
                       /\ pc' = "loop"
    /\ UNCHANGED <<fq_size, rx, batch, idx_rx, running, stats, nSteered, lastBatch,
                   delivered, umem, window, stop_peeks>>
    /\ UNCHANGED <<ml_result, ml_func>>
    /\ UNCHANGED <<clsVars, cpuVars, smpVars, fnVars>>

\* signal_handler
SignalHandler ==
    /\ pc \notin {"start", "failed", "done", "crashed"}
    /\ running = 1
    /\ running' = 0
    /\ UNCHANGED <<fq_size, fq, rx, pc, batch, idx_rx, umem_frame_addr, umem_frame_free,
                   stats, nSteered, lastBatch, delivered, umem, window, stop_peeks>>
    /\ UNCHANGED <<ml_result, ml_func>>
    /\ UNCHANGED <<clsVars, cpuVars, smpVars, fnVars>>

\* the kernel delivers a redirected frame: it is written at a fill-ring
\* address, which becomes an RX descriptor. A fill-ring entry outside the UMEM
\* is not a frame, and nothing is delivered to it
KernelRx ==
    /\ pc \in {"loop", "poll", "peek", "process", "refill"}
    /\ nSteered < MaxSteered
    /\ Len(fq) > 0
    /\ Head(fq) \in UmemAddrs
    /\ Len(rx) + (IF pc = "process" THEN Len(batch) ELSE 0) < RxRingSize
    /\ \E ff \in RxFrames :
          /\ rx' = Append(rx, [addr |-> Head(fq), len |-> Len(FrameBytes(ff)),
                               seq |-> nSteered + 1])
          /\ umem' = [umem EXCEPT ![Head(fq)] = ff]
    /\ fq' = Tail(fq)
    /\ nSteered' = nSteered + 1
    /\ UNCHANGED <<fq_size, pc, batch, idx_rx, umem_frame_addr, umem_frame_free,
                   running, stats, lastBatch, delivered, window, stop_peeks>>
    /\ UNCHANGED <<ml_result, ml_func>>
    /\ UNCHANGED <<clsVars, cpuVars, smpVars, fnVars>>

\* the loop test ignoring running
LoopTest_IgnoresRunning ==
    /\ pc = "loop"
    /\ pc' = "poll"
    /\ UNCHANGED <<fq_size, fq, rx, batch, idx_rx, umem_frame_addr, umem_frame_free,
                   running, stats, nSteered, lastBatch, delivered, umem, window,
                   stop_peeks>>
    /\ UNCHANGED <<ml_result, ml_func>>
    /\ UNCHANGED <<clsVars, cpuVars, smpVars, fnVars>>

\* while (running)
LoopTest ==
    /\ pc = "loop"
    /\ pc' = IF running # 0 THEN "poll" ELSE "done"
    /\ UNCHANGED <<fq_size, fq, rx, batch, idx_rx, umem_frame_addr, umem_frame_free,
                   running, stats, nSteered, lastBatch, delivered, umem, window,
                   stop_peeks>>
    /\ UNCHANGED <<ml_result, ml_func>>
    /\ UNCHANGED <<clsVars, cpuVars, smpVars, fnVars>>

\* poll(fds, 1, 1000): readiness, timeout, EINTR or another error
Poll ==
    /\ pc = "poll"
    /\ \E ret \in {"ready", "timeout", "eintr", "error"} :
          pc' = IF ret = "ready" THEN "peek" ELSE IF ret = "error" THEN "done" ELSE "loop"
    /\ UNCHANGED <<fq_size, fq, rx, batch, idx_rx, umem_frame_addr, umem_frame_free,
                   running, stats, nSteered, lastBatch, delivered, umem, window,
                   stop_peeks>>
    /\ UNCHANGED <<ml_result, ml_func>>
    /\ UNCHANGED <<clsVars, cpuVars, smpVars, fnVars>>

\* xsk_ring_cons__peek(&rx, RX_BATCH_SIZE, &idx_rx)
Peek ==
    /\ pc = "peek"
    /\ LET rcvd == xsk_ring_cons__peek(Len(rx), RX_BATCH_SIZE)
       IN  IF rcvd = 0
           THEN pc' = "loop" /\ UNCHANGED <<rx, batch, idx_rx>>
           ELSE /\ batch' = SubSeq(rx, 1, rcvd)
                /\ rx' = SubSeq(rx, rcvd + 1, Len(rx))
                /\ idx_rx' = 0
                /\ pc' = "process"
    /\ stop_peeks' = IF running = 0 /\ xsk_ring_cons__peek(Len(rx), RX_BATCH_SIZE) > 0
                     THEN stop_peeks + 1
                     ELSE stop_peeks
    /\ UNCHANGED <<fq_size, fq, umem_frame_addr, umem_frame_free, running, stats,
                   nSteered, lastBatch, delivered, umem, window>>
    /\ UNCHANGED <<ml_result, ml_func>>
    /\ UNCHANGED <<clsVars, cpuVars, smpVars, fnVars>>

\* values a callback may return: zero and a non-zero value
MlResults == {0, 2}

\* example_ml_processor: is_anomaly for a record
example_ml_processor(f) ==
    IF f.packet_entropy > 200 \/ f.traffic_class = 1
       \/ (f.pkt_len > 1400 /\ f.packet_entropy < 50)
    THEN 1 ELSE 0

\* the values example_ml_processor returns for each frame of the RX ring
\* from which extract_ml_features makes a record
ExampleResults ==
    {[frame |-> ff,
      results |->
          IF extract_ml_features_ret(FrameBytes(ff), Len(FrameBytes(ff))) = 0
          THEN {example_ml_processor(
                    extract_ml_features(FrameBytes(ff), Len(FrameBytes(ff)), ovf)) :
                ovf \in OverflowedCasts}
          ELSE {}] : ff \in RxFrames}

\* the values ml_func may return for the frame
ml_func_results(ff) ==
    IF ml_func = "example_ml_processor"
    THEN (CHOOSE e \in ExampleResults : e.frame = ff).results
    ELSE MlResults

\* the statistics after one descriptor of len bytes; called tells whether
\* ml_func ran, res is its return value
UpdateStatistics_ResultCounted(st, len, called, res) ==
    [rx_packets |-> st.rx_packets + (IF called /\ res # 0 THEN 0 ELSE 1),
     rx_bytes |-> st.rx_bytes + len,
     ml_features_extracted |-> st.ml_features_extracted + (IF called THEN 1 ELSE 0),
     ml_predictions_made |->
         st.ml_predictions_made + (IF called /\ res # 0 THEN 1 ELSE 0)]

UpdateStatistics(st, len, called, res) ==
    [rx_packets |-> st.rx_packets + 1,
     rx_bytes |-> st.rx_bytes + len,
     ml_features_extracted |-> st.ml_features_extracted + (IF called THEN 1 ELSE 0),
     ml_predictions_made |->
         st.ml_predictions_made + (IF called /\ res # 0 THEN 1 ELSE 0)]

\* one iteration of the for loop over the batch: ml_func is called on the
\* record of the descriptor when extract_ml_features returns 0 for the bytes
\* at xsk_umem__get_data(buffer, addr)
ProcessDesc ==
    /\ pc = "process"
    /\ idx_rx < Len(batch)
    /\ LET desc == xsk_ring_cons__rx_desc(batch, idx_rx)
           pkt_data == FrameBytes(umem[desc.addr])
           extracted == extract_ml_features_ret(pkt_data, desc.len) = 0
       IN  /\ ml_result' \in IF extracted THEN ml_func_results(umem[desc.addr])
                                        ELSE {NULL}
           /\ stats' = UpdateStatistics(stats, desc.len, extracted, ml_result')
           /\ delivered' = IF extracted THEN Append(delivered, desc.seq) ELSE delivered
           /\ window' = IF extracted THEN window + 1 ELSE window
    /\ idx_rx' = idx_rx + 1
    /\ UNCHANGED <<fq_size, fq, rx, pc, batch, umem_frame_addr, umem_frame_free,
                   running, nSteered, lastBatch, umem, stop_peeks, ml_func>>
    /\ UNCHANGED <<clsVars, cpuVars, smpVars, fnVars>>

\* xsk_ring_cons__release(&rx, rcvd)
Release ==
    /\ pc = "process"
    /\ idx_rx = Len(batch)
    /\ pc' = "refill"
    /\ ml_result' = NULL
    /\ UNCHANGED ml_func
    /\ UNCHANGED <<fq_size, fq, rx, batch, idx_rx, umem_frame_addr, umem_frame_free,
                   running, stats, nSteered, lastBatch, delivered, umem, window,
                   stop_peeks>>
    /\ UNCHANGED <<clsVars, cpuVars, smpVars, fnVars>>

\* reserve, fill and submit of the fill ring; an index outside umem_frame_addr
\* reads an arbitrary value or ends the process. The bytes of a frame that no
\* descriptor points to any more are not read again before the kernel
\* overwrites them: the model forgets them here
Refill ==
    /\ pc = "refill"
    /\ LET rcvd == Len(batch)
           ret  == xsk_ring_prod__reserve(fq_size, Len(fq), rcvd)
       IN  \/ /\ \E g \in [1..RX_BATCH_SIZE -> GarbageAddrs] :
                    LET pub == RefillAddrs(umem_frame_addr, umem_frame_free, ret, g)
                    IN  /\ fq' = fq \o pub
                        /\ lastBatch' = [peeked |-> Addrs(batch), published |-> pub]
              /\ umem_frame_free' = (umem_frame_free - ret + U32) % U32
              /\ batch' = <<>>
              /\ umem' = [a \in UmemAddrs |->
                            IF \E k \in 1..Len(rx) : rx[k].addr = a
                            THEN umem[a]
                            ELSE NoFrame]
              /\ pc' = "loop"
           \/ /\ ~RefillInRange(umem_frame_free, ret)
              /\ pc' = "crashed"
              /\ UNCHANGED <<fq, lastBatch, umem_frame_free, batch, umem>>
    /\ UNCHANGED <<fq_size, rx, idx_rx, umem_frame_addr, running, stats, nSteered,
                   delivered, window, stop_peeks>>
    /\ UNCHANGED <<ml_result, ml_func>>
    /\ UNCHANGED <<clsVars, cpuVars, smpVars, fnVars>>

NextXsk ==
    \/ ConfigureXskSocket \/ SignalHandler \/ KernelRx \/ LoopTest \/ Poll
    \/ Peek \/ ProcessDesc \/ Release \/ Refill

SpecXsk == InitXsk /\ [][NextXsk]_vars

Configured == pc \in {"loop", "poll", "peek", "process", "refill", "done", "crashed"}

AllOwned == fq \o Addrs(rx) \o Addrs(batch)

(* C2: single owner. No frame offset is twice in the fill ring, and none is *)
(* in the fill ring while it is in the RX ring or with the drainer.         *)
C2_SingleOwner ==
    Configured =>
        \A i, j \in 1..Len(AllOwned) : i # j => AllOwned[i] # AllOwned[j]

(* C3: the offsets a batch publishes to the fill ring are exactly the addr  *)
(* values of the descriptors peeked in that batch.                          *)
C3_ReturnsPeekedFrames ==
    /\ Len(lastBatch.published) = Len(lastBatch.peeked)
    /\ {lastBatch.published[k] : k \in 1..Len(lastBatch.published)}
         = {lastBatch.peeked[k] : k \in 1..Len(lastBatch.peeked)}

(* C20: FIFO within a queue. The callback is invoked on the records in the  *)
(* order in which their descriptors were published to the RX ring, however  *)
(* the steered frames are split into batches: no record is delivered after  *)
(* a record that was steered later.                                         *)
C20_Fifo ==
    \A i, j \in 1..Len(delivered) : i < j => delivered[i] < delivered[j]

\* records of more than one batch have been delivered
C20_Witness ==
    /\ Len(delivered) >= 3
    /\ delivered[Len(delivered)] > RX_BATCH_SIZE + 1
    /\ lastBatch.published # <<>>

\* descriptors of the peeked batch the for loop has not handled yet
Pending == IF pc = "process" THEN Len(batch) - idx_rx ELSE 0

(* C21: every frame steered to the queue and consumed by the drainer leads  *)
(* to exactly one callback invocation, made before the frame is released:   *)
(* the callbacks made are one per handled descriptor, none twice, those of  *)
(* a batch are all made when the batch is released, and once the RX ring is *)
(* drained ml_features_extracted equals the number of steered packets.      *)
C21_OneCallbackPerFrame ==
    /\ stats.ml_features_extracted = Len(delivered)
    /\ \A i, j \in 1..Len(delivered) : i # j => delivered[i] # delivered[j]
    /\ Len(delivered) = nSteered - Len(rx) - Pending
    /\ pc = "process" =>
          \A k \in 1..idx_rx : \E i \in 1..Len(delivered) : delivered[i] = batch[k].seq
    /\ pc \in {"refill", "crashed"} =>
          \A k \in 1..Len(batch) : \E i \in 1..Len(delivered) : delivered[i] = batch[k].seq
    /\ (rx = <<>> /\ Pending = 0) => stats.ml_features_extracted = nSteered

\* several batches have been consumed and the RX ring is drained
C21_Witness ==
    /\ nSteered > RX_BATCH_SIZE
    /\ rx = <<>>
    /\ pc = "loop"
    /\ stats.ml_features_extracted = nSteered
    /\ lastBatch.published # <<>>

----------------------------------------------------------------------------
(* The drainer against the wall clock: the callbacks made in each second    *)

\* values of max_ml_rate: no cap, one or two records per second
RateCaps == {0, 1, 2}

InitRate ==
    /\ XskStart
    /\ attached = "xdp_ml_packet_processor"
    /\ stats_map = [k \in 0..(ML_STATS_ENTRIES - 1) |-> 0]
    /\ \E cap \in RateCaps :
          config_map = [k \in {0} |-> [sampling_rate |-> 1, max_ml_rate |-> cap,
                                       filter_mask |-> 3, queue_id |-> 0]]
    /\ xsks_map = {}
    /\ counter = 0
    /\ rb_used = 0
    /\ nInv = 0
    /\ last = NoObservation
    /\ CpuIdle
    /\ SmpIdle
    /\ FnIdle

\* a wall-clock second ends: the per-second budget starts again
Tick ==
    /\ window > 0
    /\ window' = 0
    /\ UNCHANGED <<fq_size, fq, rx, pc, batch, idx_rx, umem_frame_addr, umem_frame_free,
                   running, stats, nSteered, lastBatch, delivered, umem, stop_peeks>>
    /\ UNCHANGED <<ml_result, ml_func>>
    /\ UNCHANGED <<clsVars, cpuVars, smpVars, fnVars>>

NextRate ==
    \/ ConfigureXskSocket \/ SignalHandler \/ KernelRx \/ LoopTest \/ Poll
    \/ Peek \/ ProcessDesc \/ Release \/ Refill \/ Tick

SpecRate == InitRate /\ [][NextRate]_vars

(* C22: with max_ml_rate non-zero the drainer invokes the callback at most  *)
(* max_ml_rate times within any one wall-clock second; 0 means no cap.      *)
C22_RateCap ==
    config_map[0].max_ml_rate # 0 => window <= config_map[0].max_ml_rate

----------------------------------------------------------------------------
(* Shutdown of the drainer                                                  *)

SpecXskFair ==
    /\ InitXsk
    /\ [][NextXsk]_vars
    /\ WF_vars(LoopTest)
    /\ WF_vars(Poll)
    /\ WF_vars(Peek)
    /\ WF_vars(ProcessDesc)
    /\ WF_vars(Release)
    /\ WF_vars(Refill)

(* C24: if stop is requested and every callback and every poll call         *)
(* returns, run_ml_processor eventually returns.                            *)
C24_StopLeadsToReturn == (running = 0) ~> (pc = "done")

(* C25: after configure_xsk_socket returns 0 the fill ring holds exactly    *)
(* the NUM_FRAMES offsets i * FRAME_SIZE, each once, and the RX ring is     *)
(* empty; if the reservation yields fewer than NUM_FRAMES slots it returns  *)
(* -1 and publishes nothing.                                                *)
C25_ConfigureFillsRing ==
    [][(pc = "start" /\ pc' # "start") =>
          /\ pc' \in {"loop", "failed"}
          /\ pc' = "loop" =>
                /\ Len(fq') = NUM_FRAMES
                /\ {fq'[k] : k \in 1..Len(fq')} = UmemAddrs
                /\ rx' = <<>>
          /\ pc' = "failed" => fq' = <<>>
          /\ xsk_ring_prod__reserve(fq_size, Len(fq), NUM_FRAMES) < NUM_FRAMES
                => pc' = "failed"]_vars

\* configure_xsk_socket has just returned 0
C25_Witness ==
    /\ pc = "loop"
    /\ nSteered = 0
    /\ Len(fq) = NUM_FRAMES
    /\ umem_frame_free = NUM_FRAMES

----------------------------------------------------------------------------
(* should_sample on several CPUs: counter is one static variable of the     *)
(* program, shared by all CPUs, and counter++ is a plain load and store     *)

Cpus == 1..NumCpus

InitCpu ==
    /\ cpu = [c \in Cpus |-> [pc |-> "idle", reg |-> 0]]
    /\ verdicts = [c \in Cpus |-> <<>>]
    /\ attached = "xdp_ml_packet_processor"
    /\ stats_map = [k \in 0..(ML_STATS_ENTRIES - 1) |-> 0]
    /\ config_map \in [{0} -> Configs \ {ZeroConfig}]
    /\ xsks_map = {}
    /\ counter = 0
    /\ rb_used = 0
    /\ nInv = 0
    /\ last = NoObservation
    /\ XskIdle
    /\ SmpIdle
    /\ FnIdle

\* a packet that passed the filter reaches should_sample on CPU c: load counter
SampleLoad(c) ==
    /\ cpu[c].pc = "idle"
    /\ Len(verdicts[c]) < MaxPerCpu
    /\ cpu' = [cpu EXCEPT ![c] = [pc |-> "loaded", reg |-> counter]]
    /\ UNCHANGED <<verdicts, clsVars, xskVars, smpVars, fnVars>>

\* store counter + 1
SampleStore(c) ==
    /\ cpu[c].pc = "loaded"
    /\ counter' = (cpu[c].reg + 1) % U32
    /\ cpu' = [cpu EXCEPT ![c] = [pc |-> "stored", reg |-> (cpu[c].reg + 1) % U32]]
    /\ UNCHANGED <<verdicts, xskVars, smpVars, fnVars>>
    /\ UNCHANGED <<attached, stats_map, config_map, xsks_map, rb_used, nInv, last>>

\* (counter % sampling_rate) == 0, on the value kept in the register or on a
\* second load of the variable
SampleDecide(c) ==
    /\ cpu[c].pc = "stored"
    /\ \E v \in {cpu[c].reg, counter} :
          verdicts' = [verdicts EXCEPT
                          ![c] = Append(@, BpfMod(v, config_map[0].sampling_rate) = 0)]
    /\ cpu' = [cpu EXCEPT ![c] = [pc |-> "idle", reg |-> 0]]
    /\ UNCHANGED <<clsVars, xskVars, smpVars, fnVars>>

NextCpu == \E c \in Cpus : SampleLoad(c) \/ SampleStore(c) \/ SampleDecide(c)

SpecCpu == InitCpu /\ [][NextCpu]_vars

(* C10: verdict determinism per CPU. The sampling verdicts produced on one  *)
(* CPU do not depend on what the other CPUs do: the k-th packet handled on  *)
(* a CPU is selected exactly when k is a multiple of the stride, as it is   *)
(* when that CPU runs alone.                                                *)
C10_VerdictsPerCpu ==
    \A c \in Cpus : \A k \in 1..Len(verdicts[c]) :
        verdicts[c][k] = (BpfMod(k, config_map[0].sampling_rate) = 0)

----------------------------------------------------------------------------
(* The classifiers on several CPUs. An invocation is a sequence of steps,   *)
(* one per access to shared memory (a stats_map slot, config_map, counter,  *)
(* xsks_map, feature_rb); parsing works on the CPU's own frame. The control *)
(* plane replaces the configuration at any time.                            *)

IsMlAttached == attached = "xdp_ml_packet_processor"

\* the locals of CPU c after a step, the other CPUs untouched
SmpSet(c, rec) == [inflight EXCEPT ![c] = rec]

SmpGoto(c, to) == SmpSet(c, [inflight[c] EXCEPT !.pc = to])

\* what the three parse steps of xdp_ml_packet_processor leave in the locals:
\* failure, or the protocol and the traffic class of the frame
MlParse(ff) ==
    LET b   == FrameBytes(ff)
        eth == ml_parse_ethernet(b, 0)
        ip  == parse_ip(b, eth.next)
        l4  == parse_transport(b, ip.next, ip.proto)
    IN  IF eth.ret < 0 \/ ip.ret < 0 \/ l4.ret < 0
        THEN [ret |-> -1, protocol |-> 0, traffic_class |-> FLOW_NORMAL]
        ELSE [ret |-> 0, protocol |-> ip.proto,
              traffic_class |-> classify_traffic(ip.src_ip, ip.dst_ip, l4.src_port,
                                                 l4.dst_port, ip.proto)]

\* the same for the three parse steps of xdp_packet_processor
PpParse(ff) ==
    LET b   == FrameBytes(ff)
        eth == parse_ethernet(b, 0)
        ip  == parse_ipv4(b, eth.next)
        udp == parse_udp(b, ip.next)
    IN  IF eth.ret < 0 \/ ip.ret < 0 \/ udp.ret < 0
        THEN [ret |-> -1, protocol |-> 0, traffic_class |-> FLOW_NORMAL]
        ELSE [ret |-> 0, protocol |-> IPPROTO_UDP, traffic_class |-> FLOW_NORMAL]

\* the parse results over all frames
MlParsed == {MlParse(ff) : ff \in FrameFields}

PpParsed == {PpParse(ff) : ff \in FrameFields}

\* entry of the program: update_stat(total, 1), then the three parse steps on
\* the frame of this invocation, which touch nothing but the frame
SmpEnter(c) ==
    /\ inflight[c].pc = "idle"
    /\ nInv < MaxInvocations
    /\ nInv' = nInv + 1
    /\ stats_map' = update_stat(stats_map,
                                IF IsMlAttached THEN STAT_TOTAL_PACKETS
                                ELSE STAT_PACKETS_TOTAL, 1)
    /\ \E r \in (IF IsMlAttached THEN MlParsed ELSE PpParsed) :
          inflight' =
              IF r.ret < 0 THEN SmpGoto(c, "drop")
              ELSE SmpSet(c, [inflight[c] EXCEPT
                                 !.pc = IF IsMlAttached THEN "proto" ELSE "reserve",
                                 !.protocol = r.protocol,
                                 !.traffic_class = r.traffic_class])
    /\ UNCHANGED <<attached, config_map, xsks_map, counter, rb_used, last>>
    /\ UNCHANGED <<xskVars, cpuVars, fnVars>>

\* update_stat(dropped, 1); return XDP_PASS
SmpDrop(c) ==
    /\ inflight[c].pc = "drop"
    /\ stats_map' = update_stat(stats_map,
                                IF IsMlAttached THEN STAT_DROPPED_PACKETS
                                ELSE STAT_PACKETS_DROPPED, 1)
    /\ inflight' = SmpSet(c, SmpIdleCpu)
    /\ UNCHANGED <<attached, config_map, xsks_map, counter, rb_used, nInv, last>>
    /\ UNCHANGED <<xskVars, cpuVars, fnVars>>

\* update_stat(STAT_TCP_PACKETS, 1) or update_stat(STAT_UDP_PACKETS, 1)
SmpProto(c) ==
    /\ inflight[c].pc = "proto"
    /\ stats_map' = IF inflight[c].protocol = IPPROTO_TCP
                    THEN update_stat(stats_map, STAT_TCP_PACKETS, 1)
                    ELSE IF inflight[c].protocol = IPPROTO_UDP
                         THEN update_stat(stats_map, STAT_UDP_PACKETS, 1)
                         ELSE stats_map
    /\ inflight' = SmpSet(c, [inflight[c] EXCEPT !.pc = "filtered", !.protocol = 0])
    /\ UNCHANGED <<attached, config_map, xsks_map, counter, rb_used, nInv, last>>
    /\ UNCHANGED <<xskVars, cpuVars, fnVars>>

\* the step counting the packet as sampled instead of filtered
SmpFiltered_CountsSampled(c) ==
    /\ inflight[c].pc = "filtered"
    /\ stats_map' = update_stat(stats_map, STAT_SAMPLED_PACKETS, 1)
    /\ inflight' = SmpGoto(c, "config")
    /\ UNCHANGED <<attached, config_map, xsks_map, counter, rb_used, nInv, last>>
    /\ UNCHANGED <<xskVars, cpuVars, fnVars>>

\* update_stat(STAT_FILTERED_PACKETS, 1)
SmpFiltered(c) ==
    /\ inflight[c].pc = "filtered"
    /\ stats_map' = update_stat(stats_map, STAT_FILTERED_PACKETS, 1)
    /\ inflight' = SmpGoto(c, "config")
    /\ UNCHANGED <<attached, config_map, xsks_map, counter, rb_used, nInv, last>>
    /\ UNCHANGED <<xskVars, cpuVars, fnVars>>

\* config = bpf_map_lookup_elem(&config_map, &config_key);
\* sampling_rate = config ? config->sampling_rate : 100
SmpReadRate(c) ==
    /\ inflight[c].pc = "config"
    /\ inflight' = SmpSet(c, [inflight[c] EXCEPT
                                 !.pc = "load",
                                 !.sampling_rate =
                                     IF 0 \in DOMAIN config_map
                                     THEN config_map[0].sampling_rate
                                     ELSE DEFAULT_SAMPLING_RATE])
    /\ UNCHANGED <<clsVars, xskVars, cpuVars, fnVars>>

\* should_sample: load of counter
SmpLoad(c) ==
    /\ inflight[c].pc = "load"
    /\ inflight' = SmpSet(c, [inflight[c] EXCEPT !.pc = "store", !.reg = counter])
    /\ UNCHANGED <<clsVars, xskVars, cpuVars, fnVars>>

\* should_sample: store of counter + 1
SmpStore(c) ==
    /\ inflight[c].pc = "store"
    /\ counter' = (inflight[c].reg + 1) % U32
    /\ inflight' = SmpSet(c, [inflight[c] EXCEPT !.pc = "decide",
                                                 !.reg = (inflight[c].reg + 1) % U32])
    /\ UNCHANGED <<attached, stats_map, config_map, xsks_map, rb_used, nInv, last>>
    /\ UNCHANGED <<xskVars, cpuVars, fnVars>>

\* should_sample: (counter % sampling_rate) == 0 on the register or on a second
\* load; not selected: on to the processing time
SmpDecide(c) ==
    /\ inflight[c].pc = "decide"
    /\ \E v \in {inflight[c].reg, counter} :
          inflight' = SmpSet(c, [inflight[c] EXCEPT
                                    !.pc = IF BpfMod(v, inflight[c].sampling_rate) = 0
                                           THEN "sampled" ELSE "time",
                                    !.reg = 0])
    /\ UNCHANGED <<clsVars, xskVars, cpuVars, fnVars>>

\* update_stat(STAT_SAMPLED_PACKETS, 1) and the test of the traffic class
SmpSampled(c) ==
    /\ inflight[c].pc = "sampled"
    /\ stats_map' = update_stat(stats_map, STAT_SAMPLED_PACKETS, 1)
    /\ inflight' = SmpSet(c, [inflight[c] EXCEPT
                                 !.pc = IF inflight[c].traffic_class
                                             \in {FLOW_PRIORITY, FLOW_SUSPICIOUS}
                                        THEN "ml" ELSE "time",
                                 !.traffic_class = FLOW_NORMAL])
    /\ UNCHANGED <<attached, config_map, xsks_map, counter, rb_used, nInv, last>>
    /\ UNCHANGED <<xskVars, cpuVars, fnVars>>

\* update_stat(STAT_ML_PACKETS, 1)
SmpMl(c) ==
    /\ inflight[c].pc = "ml"
    /\ stats_map' = update_stat(stats_map, STAT_ML_PACKETS, 1)
    /\ inflight' = SmpGoto(c, "redirect")
    /\ UNCHANGED <<attached, config_map, xsks_map, counter, rb_used, nInv, last>>
    /\ UNCHANGED <<xskVars, cpuVars, fnVars>>

\* queue_id = config ? config->queue_id : 0, read through the pointer obtained
\* before sampling; ret = bpf_redirect_map(&xsks_map, queue_id, 0)
SmpRedirect(c) ==
    /\ inflight[c].pc = "redirect"
    /\ LET queue_id == IF 0 \in DOMAIN config_map
                       THEN config_map[0].queue_id ELSE 0
           ret == bpf_redirect_map(xsks_map, queue_id)
       IN  inflight' = SmpSet(c, [inflight[c] EXCEPT
                                     !.pc = "time",
                                     !.queue_id = queue_id,
                                     !.verdict = IF ret = XDP_REDIRECT THEN XDP_REDIRECT
                                                 ELSE XDP_PASS])
    /\ UNCHANGED <<clsVars, xskVars, cpuVars, fnVars>>

\* bpf_ringbuf_reserve and, when it succeeds, bpf_ringbuf_submit
SmpReserve(c) ==
    /\ inflight[c].pc = "reserve"
    /\ LET rsv == bpf_ringbuf_reserve(rb_used)
           to  == IF rsv = NULL THEN "drop" ELSE "udp"
       IN  /\ inflight' = SmpSet(c, [inflight[c] EXCEPT !.pc = to, !.protocol = 0])
           /\ rb_used' = IF rsv = NULL THEN rb_used ELSE rsv
    /\ UNCHANGED <<attached, stats_map, config_map, xsks_map, counter, nInv, last>>
    /\ UNCHANGED <<xskVars, cpuVars, fnVars>>

\* update_stat(STAT_PACKETS_UDP, 1)
SmpUdp(c) ==
    /\ inflight[c].pc = "udp"
    /\ stats_map' = update_stat(stats_map, STAT_PACKETS_UDP, 1)
    /\ inflight' = SmpGoto(c, "time")
    /\ UNCHANGED <<attached, config_map, xsks_map, counter, rb_used, nInv, last>>
    /\ UNCHANGED <<xskVars, cpuVars, fnVars>>

\* update_stat(processing time, bpf_ktime_get_ns() - start_time); return
SmpTime(c) ==
    /\ inflight[c].pc = "time"
    /\ \E dt \in ElapsedNs :
          stats_map' = update_stat(stats_map,
                                   IF IsMlAttached THEN STAT_PROCESSING_TIME
                                   ELSE STAT_PP_PROCESSING_TIME, dt)
    /\ inflight' = SmpSet(c, SmpIdleCpu)
    /\ UNCHANGED <<attached, config_map, xsks_map, counter, rb_used, nInv, last>>
    /\ UNCHANGED <<xskVars, cpuVars, fnVars>>

\* one step of the program on CPU c
SmpStep(c) ==
    \/ SmpEnter(c) \/ SmpDrop(c) \/ SmpProto(c) \/ SmpFiltered(c)
    \/ SmpReadRate(c) \/ SmpLoad(c) \/ SmpStore(c) \/ SmpDecide(c)
    \/ SmpSampled(c) \/ SmpMl(c) \/ SmpRedirect(c)
    \/ SmpReserve(c) \/ SmpUdp(c) \/ SmpTime(c)

\* the program is attached, a configuration installed and the socket bound to
\* queue 0 before the first packet
InitSmp ==
    /\ attached \in Programs
    /\ stats_map = [k \in 0..(StatsEntries(attached) - 1) |-> 0]
    /\ config_map \in [{0} -> Configs]
    /\ xsks_map = {0}
    /\ counter = 0
    /\ rb_used = 0
    /\ nInv = 0
    /\ last = NoObservation
    /\ XskIdle
    /\ CpuIdle
    /\ SmpIdle
    /\ FnIdle

NextSmp == \E c \in Cpus : SmpStep(c)

SpecSmp == InitSmp /\ [][NextSmp]_vars

\* the same with a control plane that replaces the configuration and binds the
\* socket while packets are being processed
NextSwap == UpdateConfig \/ SteerSet \/ \E c \in Cpus : SmpStep(c)

SpecSwap == InitClassifier /\ [][NextSwap]_vars

AllReturned == \A c \in Cpus : inflight[c].pc = "idle"

(* C16: counter monotonicity. No step of either classifier, in any          *)
(* interleaving of invocations on several CPUs, lowers the value of a       *)
(* stats_map slot.                                                          *)
C16_CountersMonotonic ==
    [][\A k \in DOMAIN stats_map : stats_map'[k] >= stats_map[k]]_vars

\* one invocation has added its processing time while another is running
C16_Witness ==
    /\ IsMlAttached
    /\ stats_map[STAT_PROCESSING_TIME] >= 1
    /\ stats_map[STAT_TOTAL_PACKETS] = 2
    /\ stats_map[STAT_SAMPLED_PACKETS] = 1
    /\ ~AllReturned

(* C17: no increment is lost. In every interleaving of the invocations      *)
(* total_packets is the number of invocations started, and once all of them *)
(* have returned every invocation is counted in exactly one of dropped and  *)
(* filtered (ML) or dropped and udp (preprocessor).                         *)
C17_NoLostIncrement ==
    /\ stats_map[0] = nInv
    /\ AllReturned =>
          IF IsMlAttached
          THEN stats_map[STAT_DROPPED_PACKETS] + stats_map[STAT_FILTERED_PACKETS] = nInv
          ELSE stats_map[STAT_PACKETS_DROPPED] + stats_map[STAT_PACKETS_UDP] = nInv

\* two CPUs are inside the program at once, both past their last counter but one
C17_Witness ==
    /\ inflight[1].pc = "time" /\ inflight[2].pc = "time"
    /\ stats_map[0] = 2

(* C18: one configuration snapshot per packet. The sampling_rate and the    *)
(* queue_id an invocation has used are those of one configuration the       *)
(* control plane installs, never the sampling_rate of one and the queue_id  *)
(* of another.                                                              *)
C18_OneSnapshotPerPacket ==
    \A c \in Cpus :
        inflight[c].queue_id # NULL =>
            \E cfg \in Configs : /\ cfg.sampling_rate = inflight[c].sampling_rate
                                 /\ cfg.queue_id = inflight[c].queue_id

----------------------------------------------------------------------------
(* The two classification functions on host-order ports and a protocol      *)

\* the classification at the end of extract_ml_features
\* ports around the service ports and around the start of the ephemeral range
PortProbes == {22, 53, 80, 443, 1024, 49151, 49152, 49153, 65535}

\* ICMP, TCP, UDP and GRE
ProtoProbes == {IPPROTO_ICMP, IPPROTO_TCP, IPPROTO_UDP, 47}

InitFn ==
    /\ probe \in [src_port : PortProbes, dst_port : PortProbes, proto : ProtoProbes,
                   kernel : {NULL}, user : {NULL}]
    /\ feature = NoFeature
    /\ UtilIdle
    /\ ClsIdle
    /\ XskIdle
    /\ CpuIdle
    /\ SmpIdle

\* classify_traffic applied to the arguments
ClassifyKernel ==
    /\ probe.kernel = NULL
    /\ probe' = [probe EXCEPT !.kernel = classify_traffic(0, 0, probe.src_port,
                                                          probe.dst_port, probe.proto)]
    /\ UNCHANGED <<clsVars, xskVars, cpuVars, smpVars, feature, util, iface>>

\* the classification of extract_ml_features applied to the arguments
ClassifyUser ==
    /\ probe.user = NULL
    /\ probe' = [probe EXCEPT !.user = ml_feature_traffic_class(probe.src_port,
                                                                 probe.dst_port,
                                                                 probe.proto)]
    /\ UNCHANGED <<clsVars, xskVars, cpuVars, smpVars, feature, util, iface>>

NextFn == ClassifyKernel \/ ClassifyUser

SpecFn == InitFn /\ [][NextFn]_vars

(* C19: the traffic class is PRIORITY if src_port or dst_port is one of 22, *)
(* 53, 80, 443; otherwise SUSPICIOUS if both ports are greater than 49151   *)
(* or the protocol is neither TCP nor UDP; otherwise NORMAL. Both           *)
(* classify_traffic and extract_ml_features compute this class.             *)
C19_ClassificationRule ==
    LET service == {22, 53, 80, 443}
        class ==
            IF probe.src_port \in service \/ probe.dst_port \in service
            THEN FLOW_PRIORITY
            ELSE IF (probe.src_port > 49151 /\ probe.dst_port > 49151)
                    \/ probe.proto \notin {IPPROTO_TCP, IPPROTO_UDP}
                 THEN FLOW_SUSPICIOUS
                 ELSE FLOW_NORMAL
    IN  /\ probe.kernel # NULL => probe.kernel = class
        /\ probe.user # NULL => probe.user = class

----------------------------------------------------------------------------
(* extract_ml_features and calculate_entropy applied to steered frames with *)
(* a payload                                                                *)

\* shortest frame a NIC delivers: shorter packets are padded with zeros
MinFrameLen == 60

Run(b, n) == [k \in 1..n |-> b]

\* every byte value below 2^j once
Uniform(j) == [k \in 1..(2 ^ j) |-> k - 1]

\* payloads: none, one repeated byte value, the 100 bytes of a small datagram,
\* 2^j byte values equally often up to all 256, and an uneven mix
Payloads ==
    {<<>>, Run(65, 100), <<1, 1, 2, 3>>}
    \cup {Run(b, n) : b \in {0, 65, 255}, n \in 1..MaxRun}
    \cup {Uniform(j) : j \in 1..8}

\* headers of steered frames: TCP and UDP, with and without IP options
FeatHeaders == {ff \in SteeredFrames : ff.ihl \in {5, 6} /\ ff.ports = <<40000, 80>>}

L4Len(ff) == IF ff.proto = IPPROTO_TCP THEN TCPHDR_SIZE ELSE UDPHDR_SIZE

\* the IPv4 total length of the packet: IP header, L4 header and payload
FeatTotLen(x) == x.ff.ihl * 4 + L4Len(x.ff) + Len(x.payload)

PadLen(x) ==
    IF x.padded /\ ETH_HLEN + FeatTotLen(x) < MinFrameLen
    THEN MinFrameLen - (ETH_HLEN + FeatTotLen(x))
    ELSE 0

\* the frame: headers with the total-length field set, payload, padding
FeatBytes(x) ==
    EthBytes(x.ff)
    \o [IpBytes(x.ff) EXCEPT ![3] = FeatTotLen(x) \div 256, ![4] = FeatTotLen(x) % 256]
    \o L4Bytes(x.ff) \o x.payload \o Zeros(PadLen(x))

\* offset of the first byte after the headers
FeatHeaderEnd(x) == ETH_HLEN + x.ff.ihl * 4 + L4Len(x.ff)

FeatureFrames ==
    {x \in [ff : FeatHeaders, payload : Payloads, padded : BOOLEAN] :
        /\ x.padded => PadLen(x) > 0
        /\ Dyadic(FeatBytes(x), FeatHeaderEnd(x), Len(FeatBytes(x)) - FeatHeaderEnd(x))}

InitFeat ==
    /\ feature \in [frame : FeatureFrames, out : {<<>>}]
    /\ probe = NoProbe
    /\ UtilIdle
    /\ ClsIdle
    /\ XskIdle
    /\ CpuIdle
    /\ SmpIdle

\* extract_ml_features(pkt_data, len, &feature) on the frame
ExtractFeatures ==
    /\ feature.out = <<>>
    /\ \E ovf \in OverflowedCasts :
          feature' = [feature EXCEPT !.out =
                         <<extract_ml_features(FeatBytes(feature.frame),
                                               Len(FeatBytes(feature.frame)), ovf)>>]
    /\ UNCHANGED <<clsVars, xskVars, cpuVars, smpVars, probe, util, iface>>

NextFeat == ExtractFeatures

SpecFeat == InitFeat /\ [][NextFeat]_vars

\* the record has been filled in
Extracted == feature.out # <<>> /\ feature.out[1].ret = 0

(* C26: for every IPv4 frame the pkt_len of the record given to the         *)
(* callback equals the IPv4 total-length field, in host byte order,         *)
(* whatever the Ethernet header and the padding add to the frame.           *)
C26_PktLenIsTotalLength ==
    Extracted =>
        feature.out[1].pkt_len = Ntohs(LoadU16(FeatBytes(feature.frame), ETH_HLEN + 2))

(* C27: payload_len = max(0, pkt_len - headers), headers being the IP       *)
(* header of ihl*4 bytes plus the TCP header of doff*4 bytes or the 8-byte  *)
(* UDP header, with pkt_len >= headers whenever payload_len > 0.            *)
C27_PayloadLen ==
    Extracted =>
        LET b == FeatBytes(feature.frame)
            o == feature.out[1]
            l4 == ETH_HLEN + (ByteAt(b, ETH_HLEN) % 16) * 4
            headers == (ByteAt(b, ETH_HLEN) % 16) * 4
                       + (IF o.protocol = IPPROTO_TCP THEN (ByteAt(b, l4 + 12) \div 16) * 4
                          ELSE UDPHDR_SIZE)
        IN  /\ o.payload_len = IF o.pkt_len > headers THEN o.pkt_len - headers ELSE 0
            /\ o.payload_len > 0 => o.pkt_len >= headers

RefPayloads == {<<65>>, Uniform(1), Uniform(4), Uniform(7)}

(* C29: calculate_entropy maps the entropy H in [0, 8] onto [0, 255]        *)
(* without wrap-around and monotonically: a payload of higher entropy never *)
(* gets a lower value, and all 256 byte values equally often (H = 8) gets   *)
(* the top of the scale.                                                    *)
C29_EntropyScale ==
    (Extracted /\ feature.out[1].payload_len > 0) =>
        LET o == feature.out[1]
            h32 == Entropy32(FeatBytes(feature.frame), o.header_len, o.payload_len)
        IN  /\ o.packet_entropy \in 0..255
            /\ h32 = 256 => o.packet_entropy = 255
            /\ \A q \in RefPayloads :
                  Entropy32(q, 0, Len(q)) <= h32
                      => calculate_entropy(q, 0, Len(q), 0) <= o.packet_entropy

----------------------------------------------------------------------------
(* The flow hash applied to a 5-tuple                                       *)

\* 10.0.0.1, 10.0.0.2 and 100.64.0.1 as 32-bit values
IpProbes == {10 * 16777216 + 1, 10 * 16777216 + 2, 100 * 16777216 + 64 * 65536 + 1}

HashPorts == {80, 40000, 50000}

NoHash == <<>>

InitHash ==
    /\ probe \in [src_ip : IpProbes, dst_ip : IpProbes, src_port : HashPorts,
                   dst_port : HashPorts, proto : {IPPROTO_TCP, IPPROTO_UDP},
                   kernel : {NoHash}, user : {NoHash}]
    /\ feature = NoFeature
    /\ UtilIdle
    /\ ClsIdle
    /\ XskIdle
    /\ CpuIdle
    /\ SmpIdle

\* compute_flow_hash applied to the 5-tuple
HashKernel ==
    /\ probe.kernel = NoHash
    /\ probe' = [probe EXCEPT !.kernel = compute_flow_hash(probe.src_ip, probe.dst_ip,
                                                           probe.src_port, probe.dst_port,
                                                           probe.proto)]
    /\ UNCHANGED <<clsVars, xskVars, cpuVars, smpVars, feature, util, iface>>

\* the flow hash of extract_ml_features applied to the 5-tuple
HashUser ==
    /\ probe.user = NoHash
    /\ probe' = [probe EXCEPT !.user = ml_feature_flow_hash(probe.src_ip, probe.dst_ip,
                                                            probe.src_port, probe.dst_port,
                                                            probe.proto)]
    /\ UNCHANGED <<clsVars, xskVars, cpuVars, smpVars, feature, util, iface>>

NextHash == HashKernel \/ HashUser

SpecHash == InitHash /\ [][NextHash]_vars

(* C30: flow-hash symmetry. The hash of a 5-tuple equals the hash of the    *)
(* reversed 5-tuple (source and destination address and port exchanged),    *)
(* for compute_flow_hash and for the hash of extract_ml_features.           *)
C30_FlowHashSymmetric ==
    /\ probe.kernel # NoHash =>
          probe.kernel = compute_flow_hash(probe.dst_ip, probe.src_ip, probe.dst_port,
                                           probe.src_port, probe.proto)
    /\ probe.user # NoHash =>
          probe.user = ml_feature_flow_hash(probe.dst_ip, probe.src_ip, probe.dst_port,
                                            probe.src_port, probe.proto)

----------------------------------------------------------------------------
(* The utilities: the loader of xdp_packet_processor, the demo of the       *)
(* packet API and the AF_XDP drainer, from main to the exit status          *)

EPERM == 1
EBUSY == 16
ENODEV == 19

\* the status the parent sees for a value returned from main
ExitStatus(ret) == ret % 256

\* the results the environment gives to the calls of load_xdp_program
LoaderEnvs ==
    [if_nametoindex : {0, 2}, open_file : BOOLEAN, load : {0, -EPERM, -22},
     find_program : BOOLEAN, prog_fd : {-1, 5}, attach : {0, -EPERM}]

\* the results the environment gives to the calls of the demo
DemoEnvs ==
    [check_permissions : BOOLEAN, init : BOOLEAN, optimize : {0, -2},
     start : {0, -4, -6, -7}]

\* the results the environment gives to the calls of the drainer
DrainerEnvs ==
    [mmap : BOOLEAN, configure_xsk_umem : {0, -EPERM, -12},
     configure_xsk_socket : {0, -1, -EBUSY, -ENODEV}, poll : {0, -1}]

\* bpf_set_link_xdp_fd with XDP_FLAGS_UPDATE_IF_NOEXIST: the kernel refuses a
\* program when the interface has one, and removes the program for fd -1
bpf_set_link_xdp_fd(link, fd, errno) ==
    IF errno # 0 THEN [err |-> errno, link |-> link]
    ELSE IF fd >= 0 /\ link # "none" THEN [err |-> -EBUSY, link |-> link]
    ELSE IF fd >= 0 THEN [err |-> 0, link |-> "xdp_packet_processor"]
    ELSE [err |-> 0, link |-> "none"]

\* load_xdp_program: its return value, the global ifindex, the interface
load_xdp_program(env, link) ==
    LET idx == env.if_nametoindex
        set == bpf_set_link_xdp_fd(link, env.prog_fd, env.attach)
    IN  IF idx = 0 THEN [ret |-> -1, ifindex |-> idx, link |-> link]
        ELSE IF ~env.open_file THEN [ret |-> -1, ifindex |-> idx, link |-> link]
        ELSE IF env.load # 0 THEN [ret |-> -1, ifindex |-> idx, link |-> link]
        ELSE IF ~env.find_program THEN [ret |-> -1, ifindex |-> idx, link |-> link]
        ELSE IF env.prog_fd < 0 THEN [ret |-> -1, ifindex |-> idx, link |-> link]
        ELSE IF set.err # 0 THEN [ret |-> -1, ifindex |-> idx, link |-> link]
        ELSE [ret |-> 0, ifindex |-> idx, link |-> set.link]

\* cleanup of the loader: the interface afterwards
cleanup_NoDetach(ifindex, link) == link

cleanup(ifindex, link) ==
    IF ifindex > 0 THEN bpf_set_link_xdp_fd(link, -1, 0).link ELSE link

InitUtil ==
    /\ \/ /\ util \in [prog : {"xdp_loader"}, env : LoaderEnvs, pc : {"main"},
                       running : {1}, ifindex : {-1}, exit : {NULL}]
          /\ iface \in {"none", "other"}
       \/ /\ util \in [prog : {"ml_packet_demo"}, env : DemoEnvs, pc : {"main"},
                       running : {1}, ifindex : {-1}, exit : {NULL}]
          /\ iface = "none"
       \/ /\ util \in [prog : {"af_xdp_ml_processor"}, env : DrainerEnvs, pc : {"main"},
                       running : {1}, ifindex : {-1}, exit : {NULL}]
          /\ iface = "none"
    /\ probe = NoProbe
    /\ feature = NoFeature
    /\ ClsIdle
    /\ XskIdle
    /\ CpuIdle
    /\ SmpIdle

UtilRest == UNCHANGED <<clsVars, xskVars, cpuVars, smpVars, probe, feature>>

\* signal_handler of each utility: SIGINT or SIGTERM while the process lives
UtilSignal ==
    /\ util.pc # "exited"
    /\ util.running = 1
    /\ util' = [util EXCEPT !.running = 0]
    /\ UNCHANGED iface
    /\ UtilRest

\* main of the loader up to its loop
LoaderLoad ==
    /\ util.prog = "xdp_loader"
    /\ util.pc = "main"
    /\ LET r == load_xdp_program(util.env, iface)
       IN  /\ iface' = r.link
           /\ util' = IF r.ret < 0
                      THEN [util EXCEPT !.ifindex = r.ifindex, !.pc = "exited",
                                        !.exit = ExitStatus(1)]
                      ELSE [util EXCEPT !.ifindex = r.ifindex, !.pc = "loop"]
    /\ UtilRest

\* the loader leaves while (running), runs cleanup and returns 0
LoaderStop ==
    /\ util.prog = "xdp_loader"
    /\ util.pc = "loop"
    /\ util.running = 0
    /\ iface' = cleanup(util.ifindex, iface)
    /\ util' = [util EXCEPT !.pc = "exited", !.exit = ExitStatus(0)]
    /\ UtilRest

\* main of the demo up to its loop
DemoStart ==
    /\ util.prog = "ml_packet_demo"
    /\ util.pc = "main"
    /\ util' = IF ~util.env.check_permissions \/ ~util.env.init \/ util.env.start # 0
               THEN [util EXCEPT !.pc = "exited", !.exit = ExitStatus(1)]
               ELSE [util EXCEPT !.pc = "loop"]
    /\ UNCHANGED iface
    /\ UtilRest

\* the demo leaves while (running), stops the processor and returns 0
DemoStop ==
    /\ util.prog = "ml_packet_demo"
    /\ util.pc = "loop"
    /\ util.running = 0
    /\ util' = [util EXCEPT !.pc = "exited", !.exit = ExitStatus(0)]
    /\ UNCHANGED iface
    /\ UtilRest

\* main of the drainer up to run_ml_processor
DrainerStart ==
    /\ util.prog = "af_xdp_ml_processor"
    /\ util.pc = "main"
    /\ util' = IF ~util.env.mmap
               THEN [util EXCEPT !.pc = "exited", !.exit = ExitStatus(1)]
               ELSE IF util.env.configure_xsk_umem # 0
               THEN [util EXCEPT !.pc = "exited",
                                 !.exit = ExitStatus(util.env.configure_xsk_umem)]
               ELSE IF util.env.configure_xsk_socket # 0
               THEN [util EXCEPT !.pc = "exited",
                                 !.exit = ExitStatus(util.env.configure_xsk_socket)]
               ELSE [util EXCEPT !.pc = "loop"]
    /\ UNCHANGED iface
    /\ UtilRest

\* run_ml_processor ends, by running = 0 or by a poll error, and returns 0
DrainerStop ==
    /\ util.prog = "af_xdp_ml_processor"
    /\ util.pc = "loop"
    /\ util.running = 0 \/ util.env.poll < 0
    /\ util' = [util EXCEPT !.pc = "exited", !.exit = ExitStatus(0)]
    /\ UNCHANGED iface
    /\ UtilRest

NextUtil ==
    \/ UtilSignal
    \/ LoaderLoad
    \/ LoaderStop
    \/ DemoStart
    \/ DemoStop
    \/ DrainerStart
    \/ DrainerStop

SpecUtil == InitUtil /\ [][NextUtil]_vars

Exited == util.prog # "none" /\ util.pc = "exited"

\* the kinds of ending of a utility run, read from the results of its calls
PermissionFailure ==
    \/ util.prog = "xdp_loader" /\ util.env.if_nametoindex # 0 /\ util.env.open_file
         /\ (util.env.load = -EPERM
             \/ (util.env.load = 0 /\ util.env.find_program /\ util.env.prog_fd >= 0
                 /\ util.env.attach = -EPERM))
    \/ util.prog = "ml_packet_demo" /\ ~util.env.check_permissions
    \/ util.prog = "af_xdp_ml_processor" /\ util.env.mmap
         /\ (util.env.configure_xsk_umem = -EPERM
             \/ (util.env.configure_xsk_umem = 0 /\ util.env.configure_xsk_socket = -EPERM))

RuntimeFailure ==
    /\ util.prog = "af_xdp_ml_processor"
    /\ util.env.mmap
    /\ util.env.configure_xsk_umem = 0
    /\ util.env.configure_xsk_socket = 0
    /\ util.env.poll < 0
    /\ util.running = 1

\* loading or attaching the program, or binding the socket, failed for
\* another reason than permission
AttachFailure ==
    /\ ~PermissionFailure
    /\ \/ util.prog = "xdp_loader" /\ util.env.if_nametoindex # 0
            /\ load_xdp_program(util.env, "none").ret < 0
       \/ util.prog = "xdp_loader" /\ util.env.if_nametoindex # 0
            /\ iface = "other" /\ util.ifindex > 0
       \/ util.prog = "ml_packet_demo" /\ util.env.check_permissions /\ util.env.init
            /\ util.env.start # 0
       \/ util.prog = "af_xdp_ml_processor" /\ util.env.mmap
            /\ util.env.configure_xsk_umem = 0 /\ util.env.configure_xsk_socket # 0

\* the run was given a configuration it cannot use: no such interface
ConfigurationError == util.prog = "xdp_loader" /\ util.env.if_nametoindex = 0

(* C31: exit statuses. A utility that lacks the permission to attach exits  *)
(* with 3, one that fails to load or attach the program or to bind the      *)
(* socket exits with 2, one whose run ends by a runtime error of the        *)
(* processing (a poll error) exits with 4, status 1 is given only for a     *)
(* configuration error, and status 0 only to a run that succeeded.          *)
C31_ExitCodes ==
    Exited =>
        /\ PermissionFailure => util.exit = 3
        /\ AttachFailure => util.exit = 2
        /\ RuntimeFailure => util.exit = 4
        /\ util.exit = 1 => ConfigurationError
        /\ util.exit = 0 => ~RuntimeFailure

(* C32: the loader never replaces an XDP program that is attached to the    *)
(* interface: with a program attached the attach fails and the loader       *)
(* exits. On every run in which its attach succeeded, its program is off    *)
(* the interface when the process has exited after SIGINT or SIGTERM.       *)
C32_AttachDetach ==
    /\ [][iface = "other" => iface' = "other" /\ util'.pc # "loop"]_vars
    /\ [](util.prog = "xdp_loader" /\ util.pc = "exited"
              => iface # "xdp_packet_processor")

\* a loader run that attached, was signalled, detached and exited
C32_Witness ==
    /\ util.prog = "xdp_loader"
    /\ util.pc = "exited"
    /\ util.exit = 0
    /\ util.running = 0
    /\ util.ifindex > 0
    /\ iface = "none"

\* a loader run that found a program on the interface and left it there
C32_WitnessBusy ==
    /\ util.prog = "xdp_loader"
    /\ util.pc = "exited"
    /\ util.exit = 1
    /\ load_xdp_program(util.env, "none").ret = 0
    /\ iface = "other"

----------------------------------------------------------------------------
(* xdp_packet_processor under the loader, which never reads feature_rb      *)

\* the last invocation was given a well-formed IPv4/UDP packet
WellFormedUdp == IsPp /\ ~ParseFails(last.frame) /\ last.frame.proto = IPPROTO_UDP

(* C33: maps-only counting. With no consumer of feature_rb, every           *)
(* well-formed IPv4/UDP packet given to xdp_packet_processor increments     *)
(* STAT_PACKETS_UDP by 1 and is not counted as dropped, however many        *)
(* packets were processed before.                                           *)
C33_UdpCountNeverStalls ==
    WellFormedUdp =>
        /\ Delta(STAT_PACKETS_UDP) = 1
        /\ Delta(STAT_PACKETS_DROPPED) = 0

----------------------------------------------------------------------------
(* The drainer with an arbitrary callback                                   *)

\* run_ml_processor is given a callback that may return any value
InitCallback ==
    /\ XskStartWith("any")
    /\ ClsIdle
    /\ CpuIdle
    /\ SmpIdle
    /\ FnIdle

SpecCallback == InitCallback /\ [][NextXsk]_vars

(* C34: callback isolation. The value the callback returns changes only     *)
(* ml_predictions_made, which advances by 1 exactly when the value is not   *)
(* zero: each step of the loop over a batch leaves the fill ring and the    *)
(* frame accounting alone, advances rx_packets by 1, rx_bytes by the length *)
(* of the descriptor, and ml_features_extracted and the delivered records   *)
(* by the record of the descriptor, whatever the value returned; no other   *)
(* step changes ml_predictions_made.                                        *)
C34_CallbackIsolation ==
    [][/\ pc = "process" /\ idx_rx' = idx_rx + 1 =>
            LET desc == xsk_ring_cons__rx_desc(batch, idx_rx)
                called == ml_result' # NULL
            IN  /\ stats'.ml_predictions_made =
                       stats.ml_predictions_made + (IF called /\ ml_result' # 0 THEN 1 ELSE 0)
                /\ stats'.rx_packets = stats.rx_packets + 1
                /\ stats'.rx_bytes = stats.rx_bytes + desc.len
                /\ stats'.ml_features_extracted =
                       stats.ml_features_extracted + (IF called THEN 1 ELSE 0)
                /\ delivered' = IF called THEN Append(delivered, desc.seq) ELSE delivered
                /\ <<fq, rx, pc, batch, umem_frame_addr, umem_frame_free, running,
                     lastBatch, umem>>' =
                   <<fq, rx, pc, batch, umem_frame_addr, umem_frame_free, running,
                     lastBatch, umem>>
       /\ ~(pc = "process" /\ idx_rx' = idx_rx + 1) =>
            stats'.ml_predictions_made = stats.ml_predictions_made]_vars

\* two records of one run got different values from the callback, and the
\* batch after them was returned to the fill ring
C34_Witness ==
    /\ ml_func = "any"
    /\ stats.ml_features_extracted >= 3
    /\ stats.ml_predictions_made \in 1..(stats.ml_features_extracted - 1)
    /\ lastBatch.published # <<>>
    /\ pc = "loop"

----------------------------------------------------------------------------
(* The counters of xdp_ml_packet_processor against each other               *)

(* C35: counter consistency of xdp_ml_packet_processor. In every            *)
(* interleaving of invocations dropped + filtered <= total, sampled <=      *)
(* filtered and steered <= sampled; when no invocation is in progress       *)
(* total = dropped + filtered and tcp + udp = filtered.                     *)
C35_CounterConsistency ==
    IsMlAttached =>
        /\ stats_map[STAT_DROPPED_PACKETS] + stats_map[STAT_FILTERED_PACKETS]
               <= stats_map[STAT_TOTAL_PACKETS]
        /\ stats_map[STAT_SAMPLED_PACKETS] <= stats_map[STAT_FILTERED_PACKETS]
        /\ stats_map[STAT_ML_PACKETS] <= stats_map[STAT_SAMPLED_PACKETS]
        /\ AllReturned =>
              /\ stats_map[STAT_TOTAL_PACKETS] =
                     stats_map[STAT_DROPPED_PACKETS] + stats_map[STAT_FILTERED_PACKETS]
              /\ stats_map[STAT_TCP_PACKETS] + stats_map[STAT_UDP_PACKETS] =
                     stats_map[STAT_FILTERED_PACKETS]

\* one packet was steered and another invocation, counted in total only, is
\* still inside the program
C35_Witness ==
    /\ IsMlAttached
    /\ ~AllReturned
    /\ stats_map[STAT_TOTAL_PACKETS] >= 2
    /\ stats_map[STAT_DROPPED_PACKETS] + stats_map[STAT_FILTERED_PACKETS]
           < stats_map[STAT_TOTAL_PACKETS]
    /\ stats_map[STAT_ML_PACKETS] = 1

\* all invocations have returned: a dropped packet and a steered one
C35_WitnessQuiet ==
    /\ IsMlAttached
    /\ AllReturned
    /\ stats_map[STAT_DROPPED_PACKETS] = 1
    /\ stats_map[STAT_ML_PACKETS] = 1

----------------------------------------------------------------------------
(* The bytes extract_ml_features reads                                      *)

\* values a read outside the buffer may yield
StrayBytes == {0, 240}

\* the byte at off, a stray value when off is outside [pkt_data, pkt_data + pkt_len)
ReadByte(b, pkt_len, off, stray) == IF off >= 0 /\ off < pkt_len THEN ByteAt(b, off) ELSE stray

\* offsets, relative to pkt_data, of the bytes extract_ml_features reads
extract_ml_features_reads(b, pkt_len, stray) ==
    LET ip == ETH_HLEN
        protocol == ByteAt(b, ip + 9)
        transport_hdr == ip + (ByteAt(b, ip) % 16) * 4
        tcp_fields ==
            IF protocol = IPPROTO_TCP /\ transport_hdr + TCPHDR_SIZE <= pkt_len
            THEN (transport_hdr..(transport_hdr + 3)) \cup ((transport_hdr + 13)..(transport_hdr + 15))
            ELSE {}
        udp_fields ==
            IF protocol = IPPROTO_UDP /\ transport_hdr + UDPHDR_SIZE <= pkt_len
            THEN transport_hdr..(transport_hdr + 3)
            ELSE {}
        doff == IF protocol = IPPROTO_TCP THEN {transport_hdr + 12} ELSE {}
        header_len ==
            transport_hdr
            + (IF protocol = IPPROTO_TCP
               THEN (ReadByte(b, pkt_len, transport_hdr + 12, stray) \div 16) * 4
               ELSE IF protocol = IPPROTO_UDP THEN UDPHDR_SIZE
               ELSE 0)
        payload == IF header_len < pkt_len THEN header_len..(pkt_len - 1) ELSE {}
    IN  IF pkt_len < ETH_HLEN THEN {}
        ELSE IF Ntohs(LoadU16(b, 12)) # ETH_P_IP THEN {12, 13}
        ELSE IF ETH_HLEN + IPHDR_SIZE > pkt_len THEN {12, 13}
        ELSE {12, 13} \cup {ip, ip + 8, ip + 9} \cup ((ip + 12)..(ip + 19))
             \cup tcp_fields \cup udp_fields \cup doff \cup payload

\* a frame of any shape is handed to extract_ml_features with its length
InitReads ==
    /\ probe \in [frame : FrameFields, done : {FALSE}, reads : {{}}]
    /\ feature = NoFeature
    /\ UtilIdle
    /\ ClsIdle
    /\ XskIdle
    /\ CpuIdle
    /\ SmpIdle

\* extract_ml_features(pkt_data, pkt_len, &feature) on the frame
ReadFeatures ==
    /\ ~probe.done
    /\ \E stray \in StrayBytes :
          probe' = [probe EXCEPT
                       !.done = TRUE,
                       !.reads = extract_ml_features_reads(FrameBytes(probe.frame),
                                                           Len(FrameBytes(probe.frame)),
                                                           stray)]
    /\ UNCHANGED <<clsVars, xskVars, cpuVars, smpVars, feature, util, iface>>

NextReads == ReadFeatures

SpecReads == InitReads /\ [][NextReads]_vars

(* C36: memory safety of extract_ml_features. For every frame handed to it, *)
(* truncated TCP headers, ihl < 5 and ihl * 4 past the end included, every  *)
(* byte it reads, tcp->doff and the payload included, lies inside           *)
(* [pkt_data, pkt_data + pkt_len).                                          *)
C36_ReadsInsideFrame ==
    probe.done =>
        \A off \in probe.reads : off >= 0 /\ off < Len(FrameBytes(probe.frame))

----------------------------------------------------------------------------
(* The free-frame index of the drainer                                      *)

(* C37: the free-frame index stays in range for any number of batches:      *)
(* 0 <= umem_frame_free <= NUM_FRAMES, the 32-bit decrement of the refill   *)
(* loop does not wrap, and every index the refill loop uses into            *)
(* umem_frame_addr is below NUM_FRAMES, also after more than NUM_FRAMES     *)
(* frames have been returned.                                               *)
C37_FreeIndexInRange ==
    /\ umem_frame_free >= 0
    /\ umem_frame_free <= NUM_FRAMES
    /\ pc = "refill" =>
          RefillInRange(umem_frame_free,
                        xsk_ring_prod__reserve(fq_size, Len(fq), Len(batch)))
    /\ pc # "crashed"

----------------------------------------------------------------------------
(* The stride handed to should_sample                                       *)

\* the last invocation of xdp_ml_packet_processor called should_sample
ReachedSampling == IsMl /\ Delta(STAT_FILTERED_PACKETS) = 1

(* C38: the stride handed to should_sample is at least 1 for every content  *)
(* of config_map, so counter % sampling_rate is never evaluated with         *)
(* sampling_rate = 0; with the zero-initialised slot, no configuration       *)
(* installed, the stride used is the default 100.                            *)
C38_StrideAtLeastOne ==
    ReachedSampling =>
        /\ config_sampling_rate(config_map) >= 1
        /\ config_map[0] = ZeroConfig =>
              config_sampling_rate(config_map) = DEFAULT_SAMPLING_RATE

----------------------------------------------------------------------------
(* The three UDP feature extractors on one frame                            *)

\* a frame no extractor accepts
Rejected == [ret |-> -1]

\* parse_ethernet of baseline.c: return value, *eth_offset
baseline_parse_ethernet(b, len) ==
    IF len < ETH_HLEN THEN [ret |-> -1, eth_offset |-> 0]
    ELSE IF Ntohs(LoadU16(b, 12)) # ETH_P_IP THEN [ret |-> -1, eth_offset |-> ETH_HLEN]
    ELSE [ret |-> 0, eth_offset |-> ETH_HLEN]

\* parse_ip_udp of baseline.c: return value and the feature it fills in
parse_ip_udp(b, len, eth_offset) ==
    LET version == ByteAt(b, eth_offset) \div 16
        ihl == ByteAt(b, eth_offset) % 16
        ip_header_len == ihl * 4
        udp == eth_offset + ip_header_len
    IN  IF len < eth_offset + IPHDR_SIZE THEN Rejected
        ELSE IF version # 4 \/ ihl < 5 THEN Rejected
        ELSE IF len < eth_offset + ip_header_len + UDPHDR_SIZE THEN Rejected
        ELSE IF ByteAt(b, eth_offset + 9) # IPPROTO_UDP THEN Rejected
        ELSE [ret |-> 0,
              src_ip |-> LoadU32(b, eth_offset + 12),
              dst_ip |-> LoadU32(b, eth_offset + 16),
              src_port |-> LoadU16(b, udp),
              dst_port |-> LoadU16(b, udp + 2),
              pkt_len |-> Ntohs(LoadU16(b, eth_offset + 2))]

\* the loop body of baseline.c: parse_ethernet, then parse_ip_udp
baseline_extract(b) ==
    LET eth == baseline_parse_ethernet(b, Len(b))
    IN  IF eth.ret < 0 THEN Rejected ELSE parse_ip_udp(b, Len(b), eth.eth_offset)

\* the inline parser of run_baseline_test
run_baseline_test_extract(b) ==
    LET len == Len(b)
        eth_offset == ETH_HLEN
        version == ByteAt(b, eth_offset) \div 16
        ip_header_len == (ByteAt(b, eth_offset) % 16) * 4
        udp == eth_offset + ip_header_len
    IN  IF len < ETH_HLEN THEN Rejected
        ELSE IF Ntohs(LoadU16(b, 12)) # ETH_P_IP THEN Rejected
        ELSE IF len < eth_offset + IPHDR_SIZE THEN Rejected
        ELSE IF version # 4 \/ ByteAt(b, eth_offset + 9) # IPPROTO_UDP THEN Rejected
        ELSE IF len < eth_offset + ip_header_len + UDPHDR_SIZE THEN Rejected
        ELSE [ret |-> 0,
              src_ip |-> LoadU32(b, eth_offset + 12),
              dst_ip |-> LoadU32(b, eth_offset + 16),
              src_port |-> LoadU16(b, udp),
              dst_port |-> LoadU16(b, udp + 2),
              pkt_len |-> Ntohs(LoadU16(b, eth_offset + 2))]

\* the feature xdp_packet_processor submits to feature_rb, the ring having room
xdp_packet_processor_feature(b) ==
    LET eth == parse_ethernet(b, 0)
        ip  == parse_ipv4(b, eth.next)
        udp == parse_udp(b, ip.next)
    IN  IF ~xdp_packet_processor(b, 0, 0).submitted THEN Rejected
        ELSE [ret |-> 0,
              src_ip |-> ip.src_ip,
              dst_ip |-> ip.dst_ip,
              src_port |-> udp.src_port,
              dst_port |-> udp.dst_port,
              pkt_len |-> ip.total_len]

\* one frame of any shape, given to each extractor
InitExtractors ==
    /\ probe \in [frame : FrameFields, baseline : {<<>>}, inline : {<<>>}, xdp : {<<>>}]
    /\ feature = NoFeature
    /\ UtilIdle
    /\ ClsIdle
    /\ XskIdle
    /\ CpuIdle
    /\ SmpIdle

ExtractorsRest == UNCHANGED <<clsVars, xskVars, cpuVars, smpVars, feature, util, iface>>

\* baseline.c on the frame
ExtractBaseline ==
    /\ probe.baseline = <<>>
    /\ probe' = [probe EXCEPT !.baseline = <<baseline_extract(FrameBytes(probe.frame))>>]
    /\ ExtractorsRest

\* run_baseline_test on the frame
ExtractInline ==
    /\ probe.inline = <<>>
    /\ probe' = [probe EXCEPT
                    !.inline = <<run_baseline_test_extract(FrameBytes(probe.frame))>>]
    /\ ExtractorsRest

\* xdp_packet_processor on the frame
ExtractXdp ==
    /\ probe.xdp = <<>>
    /\ probe' = [probe EXCEPT
                    !.xdp = <<xdp_packet_processor_feature(FrameBytes(probe.frame))>>]
    /\ ExtractorsRest

NextExtractors == ExtractBaseline \/ ExtractInline \/ ExtractXdp

SpecExtractors == InitExtractors /\ [][NextExtractors]_vars

(* C39: the three UDP feature extractors agree. For every frame the         *)
(* baseline parser, the inline parser of run_baseline_test and the parser   *)
(* of xdp_packet_processor accept the same frames, and for an accepted      *)
(* frame give the same src_ip, dst_ip, src_port, dst_port and pkt_len.      *)
C39_ExtractorsAgree ==
    /\ probe.baseline # <<>> /\ probe.inline # <<>> => probe.baseline = probe.inline
    /\ probe.baseline # <<>> /\ probe.xdp # <<>> => probe.baseline = probe.xdp
    /\ probe.inline # <<>> /\ probe.xdp # <<>> => probe.inline = probe.xdp

====
